---- MODULE Spec2Model ----
(***************************************************************************)
(* Session lifecycle and hour-ledger engine of the tutoring scheduler.     *)
(*                                                                         *)
(* The relational store (Session, ChangeRequest, HourLedgerEntry tables)   *)
(* is shared by HTTP request handlers and by completion-job instances.     *)
(* Every `await` on the store is one step of a handler: a handler reads,   *)
(* decides on what it read, and writes in a later step.  An interactive    *)
(* prisma.$transaction keeps its writes private (and the updated rows      *)
(* locked) until it commits; a crash inside it rolls it back.              *)
(***************************************************************************)
EXTENDS Integers, Sequences, FiniteSets, TLC

\* ---------------------------------------------------------------- bounds
MaxSessions == 2        \* rows of the Session table
MaxRequests == 2        \* rows of the ChangeRequest table
MaxPurchases == 1       \* ledger rows added by POST /admin/students/:id/hours
MaxT == 2               \* instants are DayMs + 0..MaxT; the clock also visits 0..MaxT
MaxWageCents == 60      \* hourly wages tried by the proration are 0..MaxWageCents

\* ------------------------------------------------------- program constants
DayMs == 86400000       \* 24 * 60 * 60 * 1000
DefaultBatchSize == 100 \* options.batchSize ?? 100
MsPerHour == 3600000    \* MS_PER_HOUR = 60 * 60 * 1000

\* ------------------------------------------------------------- identities
Teachers == {"t1", "t2"}
Students == {"s1", "s2"}
Admins == {"a1", "a2"}
Procs == {"r1", "r2"}       \* concurrently served HTTP requests
Jobs == {"j1", "j2"}        \* concurrently running completion-job instances
NoUser == "none"

SessionStatus == {"SCHEDULED", "CANCELLED", "COMPLETED"}
ChangeRequestStatus == {"PENDING", "APPROVED", "REJECTED"}
ChangeRequestType == {"CANCEL", "RESCHEDULE"}

\* Two of the Subject enum's values and two of the Currency enum's, and the
\* hourly rates (cents) an admin enters.
Subjects == {"GENERAL", "MATH"}
Currencies == {"AUD", "CNY"}
RateCents == {100, 120}

\* Instants a session may start or end at, and the values the clock takes.
Instants == {DayMs + t : t \in 0..MaxT}
ClockValues == (0..MaxT) \cup Instants
NoTime == -1

VARIABLES sessions, changeRequests, ledger, rates, clock, req, job, worker

vars == <<sessions, changeRequests, ledger, rates, clock, req, job, worker>>

\* ------------------------------------------------------------ the store
SessionIds == 1..Len(sessions)
ChangeRequestIds == 1..Len(changeRequests)

NoData == [kind |-> "none"]

IdleReq == [op |-> "none", pc |-> "idle", res |-> "none", id |-> 0,
            actor |-> NoUser, now |-> NoTime, data |-> NoData]

IdleJob == [pc |-> "idle", now |-> NoTime, batch |-> 0, queue |-> <<>>,
            cur |-> NoData, staged |-> FALSE, processed |-> 0]

\* The worker process (part_010): its single-flight flag, the batch size it read
\* from its environment, the completeEndedSessions call its tick awaits, what the
\* latest timer firing did, and whether the latest finished tick logged a failure.
IdleWorker == [isTickRunning |-> FALSE, batchSize |-> DefaultBatchSize,
               run |-> "none", fired |-> "none", failed |-> FALSE]

Free(p) == req[p].pc \in {"idle", "done"}

\* A handler replies: the reply (with the instant the handler read) is kept until
\* the slot serves the next request; the handler's other locals are gone.
Reply(p, r) ==
    [req[p] EXCEPT !.pc = "done", !.res = r, !.id = 0, !.data = NoData, !.actor = NoUser]

\* Row locks.  Inside its transaction the job's updateMany locks the session it
\* flipped until the commit; approve's changeRequest.update locks the change
\* request until the commit.  Writers of a locked row wait.
SessionLocked(sid) ==
    \E j \in Jobs : job[j].pc = "upsert" /\ job[j].staged /\ job[j].cur.id = sid

ChangeRequestLocked(cid) ==
    \E p \in Procs : req[p].pc = "approveCommit" /\ req[p].id = cid

\* Half-open interval overlap, as the two range filters of the conflict query.
Overlaps(startA, endA, startB, endB) == startA < endB /\ endA > startB

\* The rate table (TeacherStudentRate), one row at most per teacher, student and
\* subject (the unique index): the row of a key, or NoRate.
RateKeys == Teachers \X Students \X Subjects
NoRate == [hourlyRateCents |-> 0, currency |-> "none"]

\* teacherStudentRate.findUnique({where: {teacherId_studentId_subject}})
RateOf(teacherId, studentId, subject) == rates[<<teacherId, studentId, subject>>]

HasRate(teacherId, studentId, subject) == RateOf(teacherId, studentId, subject) # NoRate

\* ------------------------------------------------------ POST /admin/sessions
\* findFirst of the conflict query: teacher's SCHEDULED sessions overlapping.
ConflictIds(teacherId, startAt, endAt, exceptId) ==
    {i \in SessionIds :
        /\ i # exceptId
        /\ sessions[i].teacherId = teacherId
        /\ sessions[i].status = "SCHEDULED"
        /\ Overlaps(sessions[i].startAtUtc, sessions[i].endAtUtc, startAt, endAt)}

NewSession(teacherId, studentId, subject, startAt, endAt, tz, units, rate) ==
    [kind |-> "session", teacherId |-> teacherId, studentId |-> studentId,
     subject |-> subject,
     startAtUtc |-> startAt, endAtUtc |-> endAt, classTimeZone |-> tz,
     status |-> "SCHEDULED", consumesUnits |-> units,
     rateCentsSnapshot |-> rate.hourlyRateCents, currencySnapshot |-> rate.currency]

\* Body validation, rate lookup and the conflict query.  The slot keeps the body of
\* a request that got as far as the conflict query.
CreateCheck(p, teacherId, studentId, subject, startAt, endAt, tz, units) ==
    /\ Free(p)
    /\ LET r0 == [IdleReq EXCEPT !.op = "create"]
       IN req' = [req EXCEPT ![p] =
            IF ~(endAt > startAt) THEN [r0 EXCEPT !.pc = "done", !.res = "InvalidArgument"]
            ELSE IF ~HasRate(teacherId, studentId, subject)
                 THEN [r0 EXCEPT !.pc = "done", !.res = "NotFound"]
            ELSE IF ConflictIds(teacherId, startAt, endAt, 0) # {}
                 THEN [r0 EXCEPT !.pc = "done", !.res = "Conflict",
                          !.data = NewSession(teacherId, studentId, subject, startAt, endAt, tz,
                                            units, RateOf(teacherId, studentId, subject))]
            ELSE [r0 EXCEPT !.pc = "createWrite",
                     !.data = NewSession(teacherId, studentId, subject, startAt, endAt, tz,
                                            units, RateOf(teacherId, studentId, subject))]]
    /\ UNCHANGED <<worker, rates, sessions, changeRequests, ledger, clock, job>>

\* session.create
CreateWrite(p) ==
    /\ req[p].pc = "createWrite"
    /\ Len(sessions) < MaxSessions
    /\ sessions' = Append(sessions, req[p].data)
    /\ req' = [req EXCEPT ![p] =
            [@ EXCEPT !.pc = "done", !.res = "Created", !.id = Len(sessions) + 1]]
    /\ UNCHANGED <<worker, rates, changeRequests, ledger, clock, job>>

\* ------------------------------------------------- PATCH /admin/sessions/:id
\* An edit that accepts any status of the enum.
EditReadAnyStatus(p, sid, pSubject, pStart, pEnd, pTz, pUnits, pStatus) ==
    /\ Free(p)
    /\ LET r0 == [IdleReq EXCEPT !.op = "edit", !.id = sid]
           existing == sessions[sid]
           nextStatus == IF pStatus = "none" THEN existing.status ELSE pStatus
           next == [kind |-> "session",
                    teacherId |-> existing.teacherId,
                    studentId |-> existing.studentId,
                    existingSubject |-> existing.subject,
                    subject |-> IF pSubject = "none" THEN existing.subject ELSE pSubject,
                    startAtUtc |-> IF pStart = NoTime THEN existing.startAtUtc ELSE pStart,
                    endAtUtc |-> IF pEnd = NoTime THEN existing.endAtUtc ELSE pEnd,
                    classTimeZone |-> IF pTz = "none" THEN existing.classTimeZone ELSE pTz,
                    status |-> nextStatus,
                    consumesUnits |-> IF pUnits = 0 THEN existing.consumesUnits ELSE pUnits,
                    nextRate |-> NoRate]
       IN req' = [req EXCEPT ![p] =
            IF pStart # NoTime /\ pEnd # NoTime /\ ~(pEnd > pStart)
                 THEN [r0 EXCEPT !.pc = "done", !.id = 0, !.res = "InvalidArgument"]
            ELSE IF sid \notin SessionIds
                 THEN [r0 EXCEPT !.pc = "done", !.id = 0, !.res = "NotFound"]
            ELSE IF existing.status # "SCHEDULED"
                 THEN [r0 EXCEPT !.pc = "done", !.id = 0, !.res = "Conflict"]
            ELSE [r0 EXCEPT !.pc = "editConflict", !.data = next]]
    /\ UNCHANGED <<worker, rates, sessions, changeRequests, ledger, clock, job>>

\* findFirst of the session and the checks on the body.  A field the body leaves
\* out is NoTime / "none" / 0.  The slot keeps the resolved fields, the subject
\* the handler read, and no next snapshot yet.
EditRead(p, sid, pSubject, pStart, pEnd, pTz, pUnits, pStatus) ==
    /\ Free(p)
    /\ LET r0 == [IdleReq EXCEPT !.op = "edit", !.id = sid]
           existing == sessions[sid]
           nextStatus == IF pStatus = "none" THEN existing.status ELSE pStatus
           next == [kind |-> "session",
                    teacherId |-> existing.teacherId,
                    studentId |-> existing.studentId,
                    existingSubject |-> existing.subject,
                    subject |-> IF pSubject = "none" THEN existing.subject ELSE pSubject,
                    startAtUtc |-> IF pStart = NoTime THEN existing.startAtUtc ELSE pStart,
                    endAtUtc |-> IF pEnd = NoTime THEN existing.endAtUtc ELSE pEnd,
                    classTimeZone |-> IF pTz = "none" THEN existing.classTimeZone ELSE pTz,
                    status |-> nextStatus,
                    consumesUnits |-> IF pUnits = 0 THEN existing.consumesUnits ELSE pUnits,
                    nextRate |-> NoRate]
       IN req' = [req EXCEPT ![p] =
            IF pStart # NoTime /\ pEnd # NoTime /\ ~(pEnd > pStart)
                 THEN [r0 EXCEPT !.pc = "done", !.id = 0, !.res = "InvalidArgument"]
            ELSE IF sid \notin SessionIds
                 THEN [r0 EXCEPT !.pc = "done", !.id = 0, !.res = "NotFound"]
            ELSE IF existing.status # "SCHEDULED"
                 THEN [r0 EXCEPT !.pc = "done", !.id = 0, !.res = "Conflict"]
            ELSE IF nextStatus \notin {"SCHEDULED", "CANCELLED"}
                 THEN [r0 EXCEPT !.pc = "done", !.res = "InvalidArgument",
                          !.data = [kind |-> "body", status |-> pStatus]]
            ELSE [r0 EXCEPT !.pc = "editConflict", !.data = next]]
    /\ UNCHANGED <<worker, rates, sessions, changeRequests, ledger, clock, job>>

\* An edit that looks the rate up again whether or not the subject changed.
EditConflictAlwaysRates(p) ==
    /\ req[p].pc = "editConflict"
    /\ LET d == req[p].data
       IN req' = [req EXCEPT ![p] =
            IF ConflictIds(d.teacherId, d.startAtUtc, d.endAtUtc, req[p].id) # {}
            THEN Reply(p, "Conflict")
            ELSE IF TRUE
                 THEN [req[p] EXCEPT !.pc = "editRate"]
            ELSE [req[p] EXCEPT !.pc = "editWrite"]]
    /\ UNCHANGED <<worker, rates, sessions, changeRequests, ledger, clock, job>>

\* findFirst of the conflict query; the rate is looked up next only when the
\* resolved subject differs from the subject read.
EditConflict(p) ==
    /\ req[p].pc = "editConflict"
    /\ LET d == req[p].data
       IN req' = [req EXCEPT ![p] =
            IF ConflictIds(d.teacherId, d.startAtUtc, d.endAtUtc, req[p].id) # {}
            THEN Reply(p, "Conflict")
            ELSE IF d.subject # d.existingSubject
                 THEN [req[p] EXCEPT !.pc = "editRate"]
            ELSE [req[p] EXCEPT !.pc = "editWrite"]]
    /\ UNCHANGED <<worker, rates, sessions, changeRequests, ledger, clock, job>>

\* teacherStudentRate.findUnique for the new subject: the next snapshot, or 404.
EditRate(p) ==
    /\ req[p].pc = "editRate"
    /\ LET d == req[p].data
           rate == RateOf(d.teacherId, d.studentId, d.subject)
       IN req' = [req EXCEPT ![p] =
            IF rate = NoRate THEN Reply(p, "NotFound")
            ELSE [req[p] EXCEPT !.pc = "editWrite", !.data.nextRate = rate]]
    /\ UNCHANGED <<worker, rates, sessions, changeRequests, ledger, clock, job>>

\* session.update({where: {id}, data: {...all resolved fields...}}); the snapshot
\* columns are in the data only when a next snapshot was looked up.  The slot
\* keeps which session it edited.
EditWrite(p) ==
    /\ req[p].pc = "editWrite"
    /\ ~SessionLocked(req[p].id)
    /\ LET d == req[p].data
           snap == IF d.nextRate = NoRate
                   THEN [hourlyRateCents |-> sessions[req[p].id].rateCentsSnapshot,
                         currency |-> sessions[req[p].id].currencySnapshot]
                   ELSE d.nextRate
       IN sessions' = [sessions EXCEPT ![req[p].id] =
            [@ EXCEPT !.subject = d.subject,
                      !.startAtUtc = d.startAtUtc, !.endAtUtc = d.endAtUtc,
                      !.classTimeZone = d.classTimeZone,
                      !.consumesUnits = d.consumesUnits, !.status = d.status,
                      !.rateCentsSnapshot = snap.hourlyRateCents,
                      !.currencySnapshot = snap.currency]]
    /\ req' = [req EXCEPT ![p] = [Reply(p, "Ok") EXCEPT !.id = req[p].id]]
    /\ UNCHANGED <<worker, rates, changeRequests, ledger, clock, job>>

\* ------------------------------------------------ DELETE /admin/sessions/:id
\* A DELETE without the COMPLETED check.
CancelReadUnguarded(p, sid) ==
    /\ Free(p)
    /\ LET r0 == [IdleReq EXCEPT !.op = "cancel", !.id = sid]
       IN req' = [req EXCEPT ![p] =
            IF sid \notin SessionIds THEN [r0 EXCEPT !.pc = "done", !.res = "NotFound"]
            ELSE IF sessions[sid].status # "CANCELLED"
                 THEN [r0 EXCEPT !.pc = "cancelWrite"]
            ELSE [r0 EXCEPT !.pc = "done", !.res = "Ok"]]
    /\ UNCHANGED <<worker, rates, sessions, changeRequests, ledger, clock, job>>

\* findFirst and the status checks; the slot keeps which session it was asked
\* to cancel.
CancelRead(p, sid) ==
    /\ Free(p)
    /\ LET r0 == [IdleReq EXCEPT !.op = "cancel", !.id = sid]
       IN req' = [req EXCEPT ![p] =
            IF sid \notin SessionIds THEN [r0 EXCEPT !.pc = "done", !.res = "NotFound"]
            ELSE IF sessions[sid].status = "COMPLETED"
                 THEN [r0 EXCEPT !.pc = "done", !.res = "Conflict"]
            ELSE IF sessions[sid].status # "CANCELLED"
                 THEN [r0 EXCEPT !.pc = "cancelWrite"]
            ELSE [r0 EXCEPT !.pc = "done", !.res = "Ok"]]
    /\ UNCHANGED <<worker, rates, sessions, changeRequests, ledger, clock, job>>

\* session.update({where: {id}, data: {status: CANCELLED}}), the audit row, the reply.
CancelWrite(p) ==
    /\ req[p].pc = "cancelWrite"
    /\ ~SessionLocked(req[p].id)
    /\ sessions' = [sessions EXCEPT ![req[p].id].status = "CANCELLED"]
    /\ req' = [req EXCEPT ![p] = [@ EXCEPT !.pc = "done", !.res = "Ok"]]
    /\ UNCHANGED <<worker, rates, changeRequests, ledger, clock, job>>

\* ------------------------------------ POST /student/sessions/:id/change-requests
NewChangeRequest(sid, requester, type, pStart, pEnd, pTz) ==
    [kind |-> "changeRequest", sessionId |-> sid, type |-> type,
     proposedStartAtUtc |-> IF type = "RESCHEDULE" THEN pStart ELSE NoTime,
     proposedEndAtUtc |-> IF type = "RESCHEDULE" THEN pEnd ELSE NoTime,
     proposedTimeZone |-> IF type = "RESCHEDULE" THEN pTz ELSE "none",
     status |-> "PENDING", requestedByUserId |-> requester, decidedByAdminId |-> NoUser]

\* Mutant of PastCutoff: the instant of the cutoff itself counts as too late.
PastCutoffInclusive(nowUtc, startAtUtc) == nowUtc >= startAtUtc - DayMs

\* cutoffUtc = startAtUtc - 24h; the request is too late when nowUtc > cutoffUtc.
PastCutoff(nowUtc, startAtUtc) == nowUtc > startAtUtc - DayMs

\* A handler that tests the cutoff before it looks at the session's status.
ChangeRequestReadCutoffFirst(p, sid, requester, type, pStart, pEnd, pTz) ==
    /\ Free(p)
    /\ LET r0 == [IdleReq EXCEPT !.op = "crCreate", !.id = sid, !.actor = requester]
       IN req' = [req EXCEPT ![p] =
            IF type = "RESCHEDULE" /\ pEnd <= pStart
                 THEN [r0 EXCEPT !.pc = "done", !.res = "InvalidArgument"]
            ELSE IF sid \notin SessionIds \/ sessions[sid].studentId # requester
                 THEN [r0 EXCEPT !.pc = "done", !.res = "NotFound"]
            ELSE IF PastCutoff(clock, sessions[sid].startAtUtc)
                 THEN [r0 EXCEPT !.pc = "done", !.res = "Forbidden", !.now = clock]
            ELSE IF sessions[sid].status # "SCHEDULED"
                 THEN [r0 EXCEPT !.pc = "done", !.res = "Conflict"]
            ELSE [r0 EXCEPT !.pc = "crPending", !.now = clock,
                     !.data = NewChangeRequest(sid, requester, type, pStart, pEnd, pTz)]]
    /\ UNCHANGED <<worker, rates, sessions, changeRequests, ledger, clock, job>>

\* Body validation, the session lookup (by id and owner), new Date() and the cutoff.
\* The slot keeps whose request on which session it served.
ChangeRequestRead(p, sid, requester, type, pStart, pEnd, pTz) ==
    /\ Free(p)
    /\ LET r0 == [IdleReq EXCEPT !.op = "crCreate", !.id = sid, !.actor = requester]
       IN req' = [req EXCEPT ![p] =
            IF type = "RESCHEDULE" /\ pEnd <= pStart
                 THEN [r0 EXCEPT !.pc = "done", !.res = "InvalidArgument"]
            ELSE IF sid \notin SessionIds \/ sessions[sid].studentId # requester
                 THEN [r0 EXCEPT !.pc = "done", !.res = "NotFound"]
            ELSE IF sessions[sid].status # "SCHEDULED"
                 THEN [r0 EXCEPT !.pc = "done", !.res = "Conflict"]
            ELSE IF PastCutoff(clock, sessions[sid].startAtUtc)
                 THEN [r0 EXCEPT !.pc = "done", !.res = "Forbidden", !.now = clock]
            ELSE [r0 EXCEPT !.pc = "crPending", !.now = clock,
                     !.data = NewChangeRequest(sid, requester, type, pStart, pEnd, pTz)]]
    /\ UNCHANGED <<worker, rates, sessions, changeRequests, ledger, clock, job>>

\* A pending check that only looks for pending CANCEL requests.
PendingCancelIds(sid) ==
    {c \in ChangeRequestIds :
        /\ changeRequests[c].sessionId = sid
        /\ changeRequests[c].status = "PENDING"
        /\ changeRequests[c].type = "CANCEL"}

PendingIds(sid) ==
    {c \in ChangeRequestIds :
        changeRequests[c].sessionId = sid /\ changeRequests[c].status = "PENDING"}

\* changeRequest.findFirst({sessionId, status: PENDING})
ChangeRequestPending(p) ==
    /\ req[p].pc = "crPending"
    /\ req' = [req EXCEPT ![p] =
            IF PendingIds(req[p].id) # {}
            THEN [req[p] EXCEPT !.pc = "done", !.res = "Conflict", !.data = NoData]
            ELSE [req[p] EXCEPT !.pc = "crInsert"]]
    /\ UNCHANGED <<worker, rates, sessions, changeRequests, ledger, clock, job>>

\* $transaction: changeRequest.create and its audit row
ChangeRequestInsert(p) ==
    /\ req[p].pc = "crInsert"
    /\ Len(changeRequests) < MaxRequests
    /\ changeRequests' = Append(changeRequests, req[p].data)
    /\ req' = [req EXCEPT ![p] = [@ EXCEPT !.pc = "done", !.res = "Created", !.data = NoData]]
    /\ UNCHANGED <<worker, rates, sessions, ledger, clock, job>>

\* ---------------------------------------- POST /admin/change-requests/:id/approve
\* An approval that does not look at the session's status.
ApproveReadIgnoresSession(p, cid, admin) ==
    /\ Free(p)
    /\ LET r0 == [IdleReq EXCEPT !.op = "approve", !.id = cid]
           cr == changeRequests[cid]
       IN req' = [req EXCEPT ![p] =
            IF cid \notin ChangeRequestIds
                 THEN [r0 EXCEPT !.pc = "done", !.id = 0, !.res = "NotFound"]
            ELSE IF cr.status # "PENDING"
                 THEN [r0 EXCEPT !.pc = "done", !.res = "Conflict"]
            ELSE IF cr.type = "RESCHEDULE"
                    /\ (cr.proposedStartAtUtc = NoTime \/ cr.proposedEndAtUtc = NoTime
                        \/ cr.proposedTimeZone = "none")
                 THEN [r0 EXCEPT !.pc = "done", !.id = 0, !.res = "InvalidArgument"]
            ELSE [r0 EXCEPT !.pc = "approveTx", !.actor = admin, !.data = cr]]
    /\ UNCHANGED <<worker, rates, sessions, changeRequests, ledger, clock, job>>

\* findUnique of the change request joined with its session, then the checks.  A
\* Conflict reply keeps which change request it was about.
\* An approval that repeats the overlap check of the manual edit before it writes.
ApproveReadChecksOverlap(p, cid, admin) ==
    /\ Free(p)
    /\ LET r0 == [IdleReq EXCEPT !.op = "approve", !.id = cid]
           cr == changeRequests[cid]
       IN req' = [req EXCEPT ![p] =
            IF cid \notin ChangeRequestIds
                 THEN [r0 EXCEPT !.pc = "done", !.id = 0, !.res = "NotFound"]
            ELSE IF cr.status # "PENDING"
                 THEN [r0 EXCEPT !.pc = "done", !.res = "Conflict"]
            ELSE IF sessions[cr.sessionId].status # "SCHEDULED"
                 THEN [r0 EXCEPT !.pc = "done", !.res = "Conflict"]
            ELSE IF cr.type = "RESCHEDULE"
                    /\ (cr.proposedStartAtUtc = NoTime \/ cr.proposedEndAtUtc = NoTime
                        \/ cr.proposedTimeZone = "none")
                 THEN [r0 EXCEPT !.pc = "done", !.id = 0, !.res = "InvalidArgument"]
            ELSE IF cr.type = "RESCHEDULE"
                    /\ ConflictIds(sessions[cr.sessionId].teacherId, cr.proposedStartAtUtc,
                                   cr.proposedEndAtUtc, cr.sessionId) # {}
                 THEN [r0 EXCEPT !.pc = "done", !.res = "Conflict"]
            ELSE [r0 EXCEPT !.pc = "approveTx", !.actor = admin, !.data = cr]]
    /\ UNCHANGED <<worker, rates, sessions, changeRequests, ledger, clock, job>>

ApproveRead(p, cid, admin) ==
    /\ Free(p)
    /\ LET r0 == [IdleReq EXCEPT !.op = "approve", !.id = cid]
           cr == changeRequests[cid]
       IN req' = [req EXCEPT ![p] =
            IF cid \notin ChangeRequestIds
                 THEN [r0 EXCEPT !.pc = "done", !.id = 0, !.res = "NotFound"]
            ELSE IF cr.status # "PENDING"
                 THEN [r0 EXCEPT !.pc = "done", !.res = "Conflict"]
            ELSE IF sessions[cr.sessionId].status # "SCHEDULED"
                 THEN [r0 EXCEPT !.pc = "done", !.res = "Conflict"]
            ELSE IF cr.type = "RESCHEDULE"
                    /\ (cr.proposedStartAtUtc = NoTime \/ cr.proposedEndAtUtc = NoTime
                        \/ cr.proposedTimeZone = "none")
                 THEN [r0 EXCEPT !.pc = "done", !.id = 0, !.res = "InvalidArgument"]
            ELSE [r0 EXCEPT !.pc = "approveTx", !.actor = admin, !.data = cr]]
    /\ UNCHANGED <<worker, rates, sessions, changeRequests, ledger, clock, job>>

\* Mutant of ApproveStage: the change request is updated outside the transaction,
\* so its new status is public before the session is written.
ApproveStageAutocommit(p) ==
    /\ req[p].pc = "approveTx"
    /\ ~ChangeRequestLocked(req[p].id)
    /\ changeRequests' = [changeRequests EXCEPT ![req[p].id] =
            [@ EXCEPT !.status = "APPROVED", !.decidedByAdminId = req[p].actor]]
    /\ req' = [req EXCEPT ![p].pc = "approveCommit"]
    /\ UNCHANGED <<worker, rates, sessions, ledger, clock, job>>

\* Inside the transaction: changeRequest.update({status: APPROVED, decidedByAdminId}).
\* The row is locked and the new version stays private until the commit.
ApproveStage(p) ==
    /\ req[p].pc = "approveTx"
    /\ ~ChangeRequestLocked(req[p].id)
    /\ req' = [req EXCEPT ![p].pc = "approveCommit"]
    /\ UNCHANGED <<worker, rates, sessions, changeRequests, ledger, clock, job>>

\* A reschedule that moves the times but forgets the timezone.
ApprovedSessionKeepsZone(s, cr) ==
    IF cr.type = "CANCEL"
    THEN [s EXCEPT !.status = "CANCELLED"]
    ELSE [s EXCEPT !.startAtUtc = cr.proposedStartAtUtc,
                   !.endAtUtc = cr.proposedEndAtUtc]

\* An approval that writes the proposed fields whatever the type.
ApprovedSessionWritesProposal(s, cr) ==
    IF cr.type = "CANCEL"
    THEN [s EXCEPT !.status = "CANCELLED",
                   !.startAtUtc = cr.proposedStartAtUtc,
                   !.endAtUtc = cr.proposedEndAtUtc,
                   !.classTimeZone = cr.proposedTimeZone]
    ELSE [s EXCEPT !.startAtUtc = cr.proposedStartAtUtc,
                   !.endAtUtc = cr.proposedEndAtUtc,
                   !.classTimeZone = cr.proposedTimeZone]

\* The session mutation of an approval, from the change request read at the start.
ApprovedSession(s, cr) ==
    IF cr.type = "CANCEL"
    THEN [s EXCEPT !.status = "CANCELLED"]
    ELSE [s EXCEPT !.startAtUtc = cr.proposedStartAtUtc,
                   !.endAtUtc = cr.proposedEndAtUtc,
                   !.classTimeZone = cr.proposedTimeZone]

\* Inside the transaction: session.update (the last write), then the commit, which
\* publishes the change request's new version and the session's together.
ApproveCommit(p) ==
    /\ req[p].pc = "approveCommit"
    /\ ~SessionLocked(req[p].data.sessionId)
    /\ changeRequests' = [changeRequests EXCEPT ![req[p].id] =
            [@ EXCEPT !.status = "APPROVED", !.decidedByAdminId = req[p].actor]]
    /\ sessions' = [sessions EXCEPT ![req[p].data.sessionId] =
            ApprovedSession(@, req[p].data)]
    /\ req' = [req EXCEPT ![p] = Reply(p, "Ok")]
    /\ UNCHANGED <<worker, rates, ledger, clock, job>>

\* ----------------------------------------- POST /admin/change-requests/:id/reject
RejectRead(p, cid, admin) ==
    /\ Free(p)
    /\ LET r0 == [IdleReq EXCEPT !.op = "reject", !.id = cid]
       IN req' = [req EXCEPT ![p] =
            IF cid \notin ChangeRequestIds
                 THEN [r0 EXCEPT !.pc = "done", !.id = 0, !.res = "NotFound"]
            ELSE IF changeRequests[cid].status # "PENDING"
                 THEN [r0 EXCEPT !.pc = "done", !.id = 0, !.res = "Conflict"]
            ELSE [r0 EXCEPT !.pc = "rejectTx", !.actor = admin]]
    /\ UNCHANGED <<worker, rates, sessions, changeRequests, ledger, clock, job>>

\* A rejection that does not record who decided.
RejectCommitAnonymous(p) ==
    /\ req[p].pc = "rejectTx"
    /\ ~ChangeRequestLocked(req[p].id)
    /\ changeRequests' = [changeRequests EXCEPT ![req[p].id] = [@ EXCEPT !.status = "REJECTED"]]
    /\ req' = [req EXCEPT ![p] = Reply(p, "Ok")]
    /\ UNCHANGED <<worker, rates, sessions, ledger, clock, job>>

\* $transaction: changeRequest.update({status: REJECTED, decidedByAdminId}), commit.
RejectCommit(p) ==
    /\ req[p].pc = "rejectTx"
    /\ ~ChangeRequestLocked(req[p].id)
    /\ changeRequests' = [changeRequests EXCEPT ![req[p].id] =
            [@ EXCEPT !.status = "REJECTED", !.decidedByAdminId = req[p].actor]]
    /\ req' = [req EXCEPT ![p] = Reply(p, "Ok")]
    /\ UNCHANGED <<worker, rates, sessions, ledger, clock, job>>

\* The server process dies while serving p: an open transaction is rolled back
\* (its private writes and locks are dropped), committed writes stay.
Crash(p) ==
    /\ ~Free(p)
    /\ req' = [req EXCEPT ![p] = IdleReq]
    /\ UNCHANGED <<worker, rates, sessions, changeRequests, ledger, clock, job>>

\* ---------------------------------------------- POST /admin/students/:id/hours
AddHours(studentId, teacherId, deltaUnits, reason) ==
    /\ Cardinality({k \in 1..Len(ledger) : ledger[k].sessionId = 0}) < MaxPurchases
    /\ ledger' = Append(ledger, [studentId |-> studentId, teacherId |-> teacherId,
                                 deltaUnits |-> deltaUnits, reason |-> reason,
                                 sessionId |-> 0])
    /\ UNCHANGED <<worker, rates, sessions, changeRequests, clock, req, job>>

\* ------------------------------------------------ PUT /admin/rates, DELETE /admin/rates/:id
\* teacherStudentRate.upsert on the key (teacherId, studentId, subject); a body
\* without a subject is for GENERAL.
RateUpsert(teacherId, studentId, pSubject, hourlyRateCents, currency) ==
    /\ LET subject == IF pSubject = "none" THEN "GENERAL" ELSE pSubject
       IN rates' = [rates EXCEPT ![<<teacherId, studentId, subject>>] =
                        [hourlyRateCents |-> hourlyRateCents, currency |-> currency]]
    /\ UNCHANGED <<worker, sessions, changeRequests, ledger, clock, req, job>>

\* findFirst of the row, then teacherStudentRate.delete; a missing row is a 404.
RateDelete(key) ==
    /\ rates[key] # NoRate
    /\ rates' = [rates EXCEPT ![key] = NoRate]
    /\ UNCHANGED <<worker, sessions, changeRequests, ledger, clock, req, job>>

\* ------------------------------------- GET /student/hours, /student/hours/by-teacher
\* _sum of deltaUnits over a set of ledger rows.
RECURSIVE SumDelta(_)
SumDelta(rows) ==
    IF rows = {} THEN 0
    ELSE LET k == CHOOSE k \in rows : TRUE
         IN ledger[k].deltaUnits + SumDelta(rows \ {k})

\* hourLedgerEntry.aggregate({where: {studentId}, _sum: {deltaUnits}}), `?? 0`
RemainingUnits(studentId) ==
    SumDelta({k \in 1..Len(ledger) : ledger[k].studentId = studentId})

\* hourLedgerEntry.groupBy({by: ['teacherId'], where: {studentId}, _sum}): the
\* groups' keys (NoUser for null) and each group's sum.
GroupKeys(studentId) ==
    {ledger[k].teacherId : k \in {l \in 1..Len(ledger) : ledger[l].studentId = studentId}}

GroupSum(studentId, teacherId) ==
    SumDelta({k \in 1..Len(ledger) :
                ledger[k].studentId = studentId /\ ledger[k].teacherId = teacherId})

\* grouped.find((g) => g.teacherId === null)?._sum.deltaUnits ?? 0
UnassignedUnits(studentId) ==
    IF NoUser \in GroupKeys(studentId) THEN GroupSum(studentId, NoUser) ELSE 0

\* A loop over the groups that does not skip the null group.
TeacherIdsOfGroups(studentId) ==
    GroupKeys(studentId)

\* for (const group of grouped) { if (!group.teacherId) continue; ... }
TeacherIdsOf(studentId) ==
    GroupKeys(studentId) \ {NoUser}

ByTeacher(studentId) ==
    [t \in TeacherIdsOf(studentId) |-> GroupSum(studentId, t)]

\* grouped.reduce((acc, g) => acc + (g._sum.deltaUnits ?? 0), 0)
RECURSIVE SumGroups(_, _)
SumGroups(studentId, keys) ==
    IF keys = {} THEN 0
    ELSE LET t == CHOOSE t \in keys : TRUE
         IN GroupSum(studentId, t) + SumGroups(studentId, keys \ {t})

TotalRemainingUnits(studentId) ==
    SumGroups(studentId, GroupKeys(studentId))

\* GET /student/hours: one aggregate query, then the reply.
Hours(p, studentId) ==
    /\ Free(p)
    /\ req' = [req EXCEPT ![p] =
            [IdleReq EXCEPT !.op = "hours", !.pc = "done", !.res = "Ok",
                            !.actor = studentId,
                            !.data = [kind |-> "hours",
                                      remainingUnits |-> RemainingUnits(studentId)]]]
    /\ UNCHANGED <<worker, rates, sessions, changeRequests, ledger, clock, job>>

\* GET /student/hours/by-teacher: one groupBy query reads the ledger; the reply
\* is computed from its groups.
HoursByTeacher(p, studentId) ==
    /\ Free(p)
    /\ req' = [req EXCEPT ![p] =
            [IdleReq EXCEPT !.op = "hoursByTeacher", !.pc = "done", !.res = "Ok",
                            !.actor = studentId,
                            !.data = [kind |-> "byTeacher",
                                      totalRemainingUnits |-> TotalRemainingUnits(studentId),
                                      unassignedUnits |-> UnassignedUnits(studentId),
                                      byTeacher |-> ByTeacher(studentId)]]]
    /\ UNCHANGED <<worker, rates, sessions, changeRequests, ledger, clock, job>>

\* ------------------------------------------------- calendar and zone helpers
\* A weekStart query value: the three digit groups of a string the pattern
\* ^\d{4}-\d{2}-\d{2}$ matches, or Malformed for any other string.
Malformed == [year |-> -1, month |-> -1, day |-> -1]
IsoDate(y, m, d) == [year |-> y, month |-> m, day |-> d]

\* Days from 1970-01-01 to the first of a month, for a year and a month 1..12.
DaysFromCivil(y, m) ==
    LET yy == IF m <= 2 THEN y - 1 ELSE y
        era == yy \div 400
        yoe == yy - era * 400
        mp == IF m > 2 THEN m - 3 ELSE m + 9
        doy == (153 * mp + 2) \div 5
        doe == yoe * 365 + yoe \div 4 - yoe \div 100 + doy
    IN era * 146097 + doe - 719468

\* The <<year, month, day>> of a day number (getUTCFullYear, getUTCMonth() + 1,
\* getUTCDate).
CivilFromDays(n) ==
    LET z == n + 719468
        era == z \div 146097
        doe == z - era * 146097
        yoe == (doe - doe \div 1460 + doe \div 36524 - doe \div 146096) \div 365
        doy == doe - (365 * yoe + yoe \div 4 - yoe \div 100)
        mp == (5 * doy + 2) \div 153
        d == doy - (153 * mp + 2) \div 5 + 1
        m == IF mp < 10 THEN mp + 3 ELSE mp - 9
    IN <<(IF m <= 2 THEN yoe + era * 400 + 1 ELSE yoe + era * 400), m, d>>

\* Date.UTC(year, monthIndex, day) in whole days: a year of 0..99 stands for
\* 1900 + year, months outside 0..11 carry into the year, and the day counts on
\* from the first of the month.
DateUtcDays(year, monthIndex, day) ==
    LET yr == IF year >= 0 /\ year <= 99 THEN 1900 + year ELSE year
        ym == yr + monthIndex \div 12
        mn == monthIndex % 12
    IN DaysFromCivil(ym, mn + 1) + day - 1

\* getUTCDay of a day number: 0 is Sunday; 1970-01-01 was a Thursday.
GetUTCDay(n) == (n + 4) % 7

\* parseIsoDate: TRUE when it returns, FALSE when it throws.
ParseIsoDateOk(dateStr) ==
    /\ dateStr # Malformed
    /\ CivilFromDays(DateUtcDays(dateStr.year, dateStr.month - 1, dateStr.day))
         = <<dateStr.year, dateStr.month, dateStr.day>>

\* A schema that takes any valid date, whatever its weekday.
PayrollQueryValidAnyDay(weekStart) ==
    /\ weekStart # Malformed
    /\ ParseIsoDateOk(weekStart)

\* payrollQuerySchema: the pattern, then a valid date, then getUTCDay() = 1.
PayrollQueryValid(weekStart) ==
    /\ weekStart # Malformed
    /\ ParseIsoDateOk(weekStart)
    /\ GetUTCDay(DateUtcDays(weekStart.year, weekStart.month - 1, weekStart.day)) = 1

\* isoDateAddDays: Date.UTC(year, month - 1, day + days), printed as a date.
IsoDateAddDays(dateStr, days) ==
    LET c == CivilFromDays(DateUtcDays(dateStr.year, dateStr.month - 1, dateStr.day + days))
    IN IsoDate(c[1], c[2], c[3])

\* The store's instants are milliseconds counted from 2026-03-29T00:00:00Z.
OriginDays == DateUtcDays(2026, 2, 29)
DateUtcMs(year, monthIndex, day) == (DateUtcDays(year, monthIndex, day) - OriginDays) * DayMs

\* Australia/Sydney between October 2025 and October 2026: UTC+11 until daylight
\* saving ends on Sunday 2026-04-05 at 03:00 local (2026-04-04T16:00Z), then
\* UTC+10.
DstEndMs == DateUtcMs(2026, 3, 4) + 16 * MsPerHour
SydneyUtcOffsetMs(t) == IF t < DstEndMs THEN 11 * MsPerHour ELSE 10 * MsPerHour

\* Europe/London in the same months: UTC+0 until summer time begins on Sunday
\* 2026-03-29 at 01:00Z (01:00 local becomes 02:00), then UTC+1.
BstStartMs == DateUtcMs(2026, 2, 29) + MsPerHour
LondonUtcOffsetMs(t) == IF t < BstStartMs THEN 0 ELSE MsPerHour

PayrollTimeZone == "Australia/Sydney"
TimeZones == {"Australia/Sydney", "Europe/London"}

\* What the zone's rules say at instant t, as Intl.DateTimeFormat applies them.
UtcOffsetMs(t, timeZone) ==
    IF timeZone = "Europe/London" THEN LondonUtcOffsetMs(t) ELSE SydneyUtcOffsetMs(t)

\* getTimeZoneOffsetMs(date, timeZone): the wall-clock fields of the instant down
\* to the second, read back as UTC, minus the instant.
GetTimeZoneOffsetMs(t, timeZone) ==
    ((t + UtcOffsetMs(t, timeZone)) \div 1000) * 1000 - t

\* Date.UTC(year, month - 1, day, hour, minute, second, millisecond)
WallClockMs(local) ==
    DateUtcMs(local.year, local.month - 1, local.day)
    + local.hour * MsPerHour + local.minute * 60000 + local.second * 1000
    + local.millisecond

\* zonedTimeToUtc(local, timeZone)
ZonedTimeToUtc(local, timeZone) ==
    LET utcGuess == WallClockMs(local)
        offset1 == GetTimeZoneOffsetMs(utcGuess, timeZone)
        utc1 == utcGuess - offset1
        offset2 == GetTimeZoneOffsetMs(utc1, timeZone)
    IN IF offset2 = offset1 THEN utc1 ELSE utcGuess - offset2

\* {year, month, day, hour: 0, minute: 0, second: 0}; millisecond defaults to 0.
AtMidnight(parts) ==
    [year |-> parts.year, month |-> parts.month, day |-> parts.day,
     hour |-> 0, minute |-> 0, second |-> 0, millisecond |-> 0]

\* ------------------------------------------------------- GET /teacher/payroll
\* Rounding to the cent by truncation.
ProrateCentsTruncating(durationMs, hourlyRateCents) ==
    IF durationMs <= 0 THEN 0
    ELSE (durationMs * hourlyRateCents) \div MsPerHour

\* prorateCents: (numerator + denominator / 2n) / denominator in BigInt.
ProrateCents(durationMs, hourlyRateCents) ==
    IF durationMs <= 0 THEN 0
    ELSE LET numerator == durationMs * hourlyRateCents
             denominator == MsPerHour
         IN (numerator + denominator \div 2) \div denominator

\* A range filter that takes the end of the range in.
InRangeInclusive(endAtUtc, rangeStartUtc, rangeEndUtcExclusive) ==
    endAtUtc >= rangeStartUtc /\ endAtUtc <= rangeEndUtcExclusive

\* A range filter that leaves the first instant of the range out.
InRangeOpen(endAtUtc, rangeStartUtc, rangeEndUtcExclusive) ==
    endAtUtc > rangeStartUtc /\ endAtUtc < rangeEndUtcExclusive

\* endAtUtc: {gte: rangeStartUtc, lt: rangeEndUtcExclusive}
InRange(endAtUtc, rangeStartUtc, rangeEndUtcExclusive) ==
    endAtUtc >= rangeStartUtc /\ endAtUtc < rangeEndUtcExclusive

\* session.findMany of the payroll query: the ids of the rows it returns.
PayrollRows(teacherId, rangeStartUtc, rangeEndUtcExclusive) ==
    {i \in SessionIds :
        /\ sessions[i].teacherId = teacherId
        /\ sessions[i].status = "COMPLETED"
        /\ InRange(sessions[i].endAtUtc, rangeStartUtc, rangeEndUtcExclusive)}

ZeroTotal == [totalCents |-> 0, totalMs |-> 0, sessionsCount |-> 0]

\* map.get(key) ?? zero, plus one session, map.set(key, ...).  totalHours is kept
\* as the milliseconds it is the quotient of.
AddSession(map, key, sessionCents, durationMs) ==
    [k \in DOMAIN map \cup {key} |->
        IF k = key
        THEN LET existing == IF key \in DOMAIN map THEN map[key] ELSE ZeroTotal
             IN [totalCents |-> existing.totalCents + sessionCents,
                 totalMs |-> existing.totalMs + durationMs,
                 sessionsCount |-> existing.sessionsCount + 1]
        ELSE map[k]]

\* Totals keyed by student and currency alike, whatever the currency.
AddStudentSessionMerged(byStudent, studentId, currency, sessionCents, durationMs) ==
    [k \in DOMAIN byStudent \cup {studentId} |->
        IF k = studentId
        THEN AddSession(IF studentId \in DOMAIN byStudent THEN byStudent[studentId] ELSE <<>>,
                        "AUD", sessionCents, durationMs)
        ELSE byStudent[k]]

\* totalsByStudent.get(studentId) ?? new entry, then its own per-currency map.
AddStudentSession(byStudent, studentId, currency, sessionCents, durationMs) ==
    [k \in DOMAIN byStudent \cup {studentId} |->
        IF k = studentId
        THEN AddSession(IF studentId \in DOMAIN byStudent THEN byStudent[studentId] ELSE <<>>,
                        currency, sessionCents, durationMs)
        ELSE byStudent[k]]

\* The loop over the rows found, in the order of their ids.
RECURSIVE Aggregate(_, _)
Aggregate(ids, acc) ==
    IF ids = {} THEN acc
    ELSE LET i == CHOOSE x \in ids : \A z \in ids : x <= z
             session == sessions[i]
             durationMs == session.endAtUtc - session.startAtUtc
             sessionCents == ProrateCents(durationMs, session.rateCentsSnapshot)
         IN IF durationMs <= 0 THEN Aggregate(ids \ {i}, acc)
            ELSE Aggregate(ids \ {i},
                    [totals |-> AddSession(acc.totals, session.currencySnapshot,
                                           sessionCents, durationMs),
                     byStudent |-> AddStudentSession(acc.byStudent, session.studentId,
                                                     session.currencySnapshot,
                                                     sessionCents, durationMs)])

\* The whole handler: schema, week range, findMany, the loop, the reply.  The
\* slot keeps the rows found next to the reply.
Payroll(p, teacherId, weekStart) ==
    /\ Free(p)
    /\ LET r0 == [IdleReq EXCEPT !.op = "payroll", !.pc = "done", !.actor = teacherId]
       IN req' = [req EXCEPT ![p] =
            IF ~PayrollQueryValid(weekStart)
            THEN [r0 EXCEPT !.res = "InvalidArgument",
                            !.data = [kind |-> "query", weekStartLocal |-> weekStart]]
            ELSE LET weekEndLocal == IsoDateAddDays(weekStart, 6)
                     nextWeekStartLocal == IsoDateAddDays(weekStart, 7)
                     rangeStartUtc ==
                         ZonedTimeToUtc(AtMidnight(weekStart), PayrollTimeZone)
                     rangeEndUtcExclusive ==
                         ZonedTimeToUtc(AtMidnight(nextWeekStartLocal), PayrollTimeZone)
                     found == PayrollRows(teacherId, rangeStartUtc, rangeEndUtcExclusive)
                     sums == Aggregate(found, [totals |-> <<>>, byStudent |-> <<>>])
                 IN [r0 EXCEPT !.res = "Ok",
                               !.data = [kind |-> "payroll",
                                         weekStartLocal |-> weekStart,
                                         weekEndLocal |-> weekEndLocal,
                                         rangeStartUtc |-> rangeStartUtc,
                                         rangeEndUtcExclusive |-> rangeEndUtcExclusive,
                                         found |-> found,
                                         totals |-> sums.totals,
                                         byStudent |-> sums.byStudent]]]
    /\ UNCHANGED <<worker, rates, sessions, changeRequests, ledger, clock, job>>

\* ------------------------------------------------------ completeEndedSessions
\* findMany({status: SCHEDULED, endAtUtc <= now}, orderBy endAtUtc asc, take N)
Eligible(now) ==
    {i \in SessionIds : sessions[i].status = "SCHEDULED" /\ sessions[i].endAtUtc <= now}

Min(a, b) == IF a < b THEN a ELSE b

IsSelection(q, now, batchSize) ==
    /\ Len(q) = Min(batchSize, Cardinality(Eligible(now)))
    /\ \A k \in 1..Len(q) : q[k] \in Eligible(now)
    /\ \A k, l \in 1..Len(q) :
          k < l => q[k] # q[l] /\ sessions[q[k]].endAtUtc <= sessions[q[l]].endAtUtc
    /\ \A i \in Eligible(now) :
          (\A k \in 1..Len(q) : q[k] # i) =>
              \A k \in 1..Len(q) : sessions[q[k]].endAtUtc <= sessions[i].endAtUtc

\* A findMany without the orderBy: any batchSize of the eligible rows.
SelectionsUnordered(now, batchSize) ==
    {q \in UNION {[1..n -> SessionIds] : n \in 0..Len(sessions)} :
        /\ Len(q) = Min(batchSize, Cardinality(Eligible(now)))
        /\ \A k \in 1..Len(q) : q[k] \in Eligible(now)
        /\ \A k, l \in 1..Len(q) : k < l => q[k] # q[l]}

\* Rows with equal endAtUtc come in an order the store chooses.
Selections(now, batchSize) ==
    {q \in UNION {[1..n -> SessionIds] : n \in 0..Len(sessions)} :
        IsSelection(q, now, batchSize)}

\* return { processed: sessions.length }; the run's options stay known to its caller.
Returned(batchSize, processed) ==
    [IdleJob EXCEPT !.pc = "returned", !.batch = batchSize, !.processed = processed]

\* The run after its findMany answered q: at its first unit of work, or returned.
Started(q, batchSize) ==
    IF q = <<>> THEN Returned(batchSize, 0)
    ELSE [IdleJob EXCEPT !.pc = "read", !.now = clock, !.batch = batchSize,
                         !.queue = q, !.processed = Len(q)]

JobStart(j, batchSize) ==
    /\ job[j].pc \in {"idle", "returned"}
    /\ \E q \in Selections(clock, batchSize) :
          job' = [job EXCEPT ![j] = Started(q, batchSize)]
    /\ UNCHANGED <<worker, rates, sessions, changeRequests, ledger, clock, req>>

\* A loop that leaves after its first unit of work.
JobAdvanceReturns(j) ==
    Returned(job[j].batch, job[j].processed)

\* End of one unit of work: on to the next selected session, or the run returns.
JobAdvance(j) ==
    IF Len(job[j].queue) > 1
    THEN [job[j] EXCEPT !.pc = "read", !.queue = Tail(@), !.cur = NoData, !.staged = FALSE]
    ELSE Returned(job[j].batch, job[j].processed)

\* A unit of work that also leaves a session alone when its student's remaining
\* units do not cover it.
JobReadGated(j) ==
    /\ job[j].pc = "read"
    /\ LET sid == Head(job[j].queue)
           current == sessions[sid]
       IN job' = [job EXCEPT ![j] =
            IF sid \notin SessionIds THEN JobAdvance(j)
            ELSE IF current.endAtUtc > job[j].now THEN JobAdvance(j)
            ELSE IF current.status = "CANCELLED" THEN JobAdvance(j)
            ELSE IF RemainingUnits(current.studentId) < current.consumesUnits
                 THEN JobAdvance(j)
            ELSE [job[j] EXCEPT !.pc = "update",
                     !.cur = [kind |-> "current", id |-> sid,
                              studentId |-> current.studentId,
                              teacherId |-> current.teacherId,
                              consumesUnits |-> current.consumesUnits]]]
    /\ UNCHANGED <<worker, rates, sessions, changeRequests, ledger, clock, req>>

\* tx.session.findUnique, and the three early returns of the unit of work.
JobRead(j) ==
    /\ job[j].pc = "read"
    /\ LET sid == Head(job[j].queue)
           current == sessions[sid]
       IN job' = [job EXCEPT ![j] =
            IF sid \notin SessionIds THEN JobAdvance(j)
            ELSE IF current.endAtUtc > job[j].now THEN JobAdvance(j)
            ELSE IF current.status = "CANCELLED" THEN JobAdvance(j)
            ELSE [job[j] EXCEPT !.pc = "update",
                     !.cur = [kind |-> "current", id |-> sid,
                              studentId |-> current.studentId,
                              teacherId |-> current.teacherId,
                              consumesUnits |-> current.consumesUnits]]]
    /\ UNCHANGED <<worker, rates, sessions, changeRequests, ledger, clock, req>>

\* The status flip written outside the transaction: public at once, and kept when
\* the unit of work later fails.
JobUpdateAutocommit(j) ==
    /\ job[j].pc = "update"
    /\ ~SessionLocked(job[j].cur.id)
    /\ sessions' = IF sessions[job[j].cur.id].status = "SCHEDULED"
                   THEN [sessions EXCEPT ![job[j].cur.id].status = "COMPLETED"]
                   ELSE sessions
    /\ job' = [job EXCEPT ![j] = [@ EXCEPT !.pc = "upsert", !.staged = FALSE]]
    /\ UNCHANGED <<worker, rates, changeRequests, ledger, clock, req>>

\* tx.session.updateMany({where: {id, status: SCHEDULED}, data: {status: COMPLETED}}):
\* waits for the row's lock, then flips the row (privately, keeping it locked) when
\* its committed status is SCHEDULED.
JobUpdate(j) ==
    /\ job[j].pc = "update"
    /\ ~SessionLocked(job[j].cur.id)
    /\ job' = [job EXCEPT ![j] =
            [@ EXCEPT !.pc = "upsert",
                      !.staged = (sessions[job[j].cur.id].status = "SCHEDULED")]]
    /\ UNCHANGED <<worker, rates, sessions, changeRequests, ledger, clock, req>>

LedgerIdsOf(sid) == {k \in 1..Len(ledger) : ledger[k].sessionId = sid}

ConsumeEntry(current) ==
    [studentId |-> current.studentId, teacherId |-> current.teacherId,
     deltaUnits |-> 0 - current.consumesUnits, reason |-> "SESSION_CONSUME",
     sessionId |-> current.id]

\* A plain create in place of the upsert, on a table without the unique index.
UpsertCreates(current) ==
    Append(ledger, ConsumeEntry(current))

\* An upsert whose update branch charges the units again on the row it finds.
UpsertAccumulates(current) ==
    IF LedgerIdsOf(current.id) = {} THEN Append(ledger, ConsumeEntry(current))
    ELSE [k \in 1..Len(ledger) |->
            IF k \in LedgerIdsOf(current.id)
            THEN [ledger[k] EXCEPT !.deltaUnits = @ - current.consumesUnits]
            ELSE ledger[k]]

\* tx.hourLedgerEntry.upsert({where: {sessionId}, create: {...}, update: {}})
Upsert(current) ==
    IF LedgerIdsOf(current.id) = {} THEN Append(ledger, ConsumeEntry(current)) ELSE ledger

\* The upsert (the last write of the transaction) and the commit, which publishes
\* the flipped status and the ledger row together.
JobUpsert(j) ==
    /\ job[j].pc = "upsert"
    /\ ledger' = Upsert(job[j].cur)
    /\ sessions' = IF job[j].staged
                   THEN [sessions EXCEPT ![job[j].cur.id].status = "COMPLETED"]
                   ELSE sessions
    /\ job' = [job EXCEPT ![j] = JobAdvance(j)]
    /\ UNCHANGED <<worker, rates, changeRequests, clock, req>>

\* The unit of work throws (the store fails, the process dies): its transaction is
\* rolled back and the exception leaves the loop, so the run ends there.
JobFail(j) ==
    /\ job[j].pc \in {"read", "update", "upsert"}
    /\ job' = [job EXCEPT ![j] = IdleJob]
    /\ UNCHANGED <<worker, rates, sessions, changeRequests, ledger, clock, req>>

\* ------------------------------------------------------------ the worker's tick
InFlight(j) == job[j].pc \in {"read", "update", "upsert"}

\* A tick without the single-flight test: every timer firing calls the job.
WorkerTickUnguarded(j) ==
    /\ ~InFlight(j)
    /\ \E q \in Selections(clock, worker.batchSize) :
          job' = [job EXCEPT ![j] = Started(q, worker.batchSize)]
    /\ worker' = [worker EXCEPT !.isTickRunning = TRUE, !.run = j, !.fired = "started"]
    /\ UNCHANGED <<rates, sessions, changeRequests, ledger, clock, req>>

\* tick(), called at start-up and by every timer firing: it returns at once when
\* the flag is set; otherwise it sets the flag and calls completeEndedSessions
\* with the worker's batch size, as run j.
WorkerTick(j) ==
    /\ IF worker.isTickRunning
       THEN /\ worker' = [worker EXCEPT !.fired = "skipped"]
            /\ UNCHANGED job
       ELSE /\ ~InFlight(j)
            /\ \E q \in Selections(clock, worker.batchSize) :
                  job' = [job EXCEPT ![j] = Started(q, worker.batchSize)]
            /\ worker' = [worker EXCEPT !.isTickRunning = TRUE, !.run = j,
                                          !.fired = "started"]
    /\ UNCHANGED <<rates, sessions, changeRequests, ledger, clock, req>>

\* A tick that clears the flag in the statement after the await, with no finally:
\* a run that throws leaves the flag set.
WorkerTickEndNoFinally ==
    /\ worker.run # "none"
    /\ ~InFlight(worker.run)
    /\ worker' = [worker EXCEPT !.run = "none",
                      !.failed = (job[worker.run].pc # "returned"),
                      !.isTickRunning = (job[worker.run].pc # "returned")]
    /\ UNCHANGED <<rates, sessions, changeRequests, ledger, clock, req, job>>

\* The awaited run has returned, or has thrown and the catch has logged it: the
\* finally clears the flag.
WorkerTickEnd ==
    /\ worker.run # "none"
    /\ ~InFlight(worker.run)
    /\ worker' = [worker EXCEPT !.run = "none", !.isTickRunning = FALSE,
                                  !.failed = (job[worker.run].pc # "returned")]
    /\ UNCHANGED <<rates, sessions, changeRequests, ledger, clock, req, job>>

\* Time passes.
Tick ==
    /\ clock + 1 \in ClockValues
    /\ clock' = clock + 1
    /\ UNCHANGED <<worker, rates, sessions, changeRequests, ledger, req, job>>

\* ------------------------------------------------------------- initial stores
\* The rate table the seeded stores start with: a GENERAL rate for every pair but
\* (t2, s2), and a MATH rate in another currency for (t1, s1).
SeedRates ==
    [k \in RateKeys |->
        IF k[3] = "GENERAL" /\ ~(k[1] = "t2" /\ k[2] = "s2")
            THEN [hourlyRateCents |-> 100, currency |-> "AUD"]
        ELSE IF k = <<"t1", "s1", "MATH">>
            THEN [hourlyRateCents |-> 120, currency |-> "CNY"]
        ELSE NoRate]

\* A GENERAL session created under the seeded rate table.
SeedSession(teacherId, studentId, startAt, endAt, status) ==
    [NewSession(teacherId, studentId, "GENERAL", startAt, endAt, "Australia/Sydney", 1,
                SeedRates[<<teacherId, studentId, "GENERAL">>])
        EXCEPT !.status = status]

\* The ledger rows the job wrote for the COMPLETED sessions of a table.
RECURSIVE SeedLedger(_, _)
SeedLedger(table, n) ==
    IF n = 0 THEN <<>>
    ELSE LET rest == SeedLedger(table, n - 1)
         IN IF table[n].status = "COMPLETED"
            THEN Append(rest, ConsumeEntry([id |-> n, studentId |-> table[n].studentId,
                                            teacherId |-> table[n].teacherId,
                                            consumesUnits |-> table[n].consumesUnits]))
            ELSE rest

Seeded(table, now) ==
    /\ sessions = table
    /\ ledger = SeedLedger(table, Len(table))
    /\ rates = SeedRates
    /\ changeRequests = <<>>
    /\ clock = now
    /\ req = [p \in Procs |-> IdleReq]
    /\ job = [j \in Jobs |-> IdleJob]
    /\ worker = IdleWorker

Intervals == {iv \in Instants \X Instants : iv[1] < iv[2]}

\* ------------------------------------------- admins creating sessions (SpecCreate)
\* The store holds nothing, or one session of teacher t1 in any status.
InitCreate ==
    \E table \in {<<>>} \cup {<<SeedSession("t1", "s1", iv[1], iv[2], st)>> :
                                iv \in Intervals, st \in SessionStatus} :
        Seeded(table, 0)

NextCreate ==
    \/ \E p \in Procs, t \in Teachers, s \in Students, a \in Instants, b \in Instants :
          CreateCheck(p, t, s, "GENERAL", a, b, "UTC", 1)
    \/ \E p \in Procs : CreateWrite(p)

SpecCreate == InitCreate /\ [][NextCreate]_vars

\* ----------------------------------- students asking for changes (SpecRequests)
\* The store holds one SCHEDULED session of student s1 that starts at DayMs + 1, so
\* its cutoff is instant 1: the clock starts before it, reaches it and passes it.
\* Admins reject requests and cancel the session meanwhile.
InitRequests ==
    Seeded(<<SeedSession("t1", "s1", DayMs + 1, DayMs + 2, "SCHEDULED")>>, 0)

NextRequests ==
    \/ \E p \in Procs, sid \in 1..(Len(sessions) + 1), s \in Students :
          ChangeRequestRead(p, sid, s, "CANCEL", NoTime, NoTime, "none")
    \/ \E p \in Procs, b \in {DayMs + 1, DayMs + 2} :
          ChangeRequestRead(p, 1, "s1", "RESCHEDULE", DayMs + 1, b, "UTC")
    \/ \E p \in Procs : ChangeRequestPending(p)
    \/ \E p \in Procs : ChangeRequestInsert(p)
    \/ \E p \in Procs, cid \in 1..MaxRequests : RejectRead(p, cid, "a1")
    \/ \E p \in Procs : RejectCommit(p)
    \/ \E p \in Procs : CancelRead(p, 1)
    \/ \E p \in Procs : CancelWrite(p)
    \/ \E p \in Procs : Crash(p)
    \/ Tick

SpecRequests == InitRequests /\ [][NextRequests]_vars

\* -------------------------------------- admins deciding on requests (SpecDecide)
\* The store holds one SCHEDULED session and pending change requests on it (two
\* pending requests on one session are reachable, see C5).
PendingRequest(type, startAt) ==
    NewChangeRequest(1, "s1", type, startAt, startAt + 1, "UTC")

RequestChoices == {PendingRequest("CANCEL", NoTime), PendingRequest("RESCHEDULE", DayMs + 1)}

RECURSIVE Tables(_, _)
Tables(rows, n) ==
    IF n = 0 THEN {<<>>}
    ELSE LET shorter == Tables(rows, n - 1)
         IN shorter \cup {Append(t, r) : t \in {u \in shorter : Len(u) = n - 1}, r \in rows}

\* Request ids are row positions and nothing orders the rows by kind, so a
\* seeded table is taken with its CANCEL rows first: every other table is
\* this one with its ids renamed.
InKindOrder(t) ==
    \A i, k \in 1..Len(t) : (i < k /\ t[k].type = "CANCEL") => t[i].type = "CANCEL"

InitDecide ==
    /\ sessions = <<SeedSession("t1", "s1", DayMs, DayMs + 1, "SCHEDULED")>>
    /\ rates = SeedRates
    /\ changeRequests \in {t \in Tables(RequestChoices, MaxRequests) :
                              Len(t) >= 1 /\ InKindOrder(t)}
    /\ ledger = <<>>
    /\ clock = 0
    /\ req = [p \in Procs |-> IdleReq]
    /\ job = [j \in Jobs |-> IdleJob]
    /\ worker = IdleWorker

NextDecide ==
    \/ \E p \in Procs, cid \in 1..(Len(changeRequests) + 1), a \in Admins :
          ApproveRead(p, cid, a)
    \/ \E p \in Procs : ApproveStage(p)
    \/ \E p \in Procs : ApproveCommit(p)
    \/ \E p \in Procs, cid \in 1..(Len(changeRequests) + 1), a \in Admins :
          RejectRead(p, cid, a)
    \/ \E p \in Procs : RejectCommit(p)
    \/ \E p \in Procs : CancelRead(p, 1)
    \/ \E p \in Procs : CancelWrite(p)
    \/ \E p \in Procs : Crash(p)

SpecDecide == InitDecide /\ [][NextDecide]_vars

\* ------------------------------------------ one session's life (SpecLifecycle)
\* The store holds one SCHEDULED session [DayMs, DayMs + 1) with one pending
\* change request; admins edit, cancel and decide while the job sweeps.
\* An edit's body changes the times or the status; the cancellation arrives on
\* one request slot and the decisions on the other (two decisions racing each
\* other are SpecDecide's subject); the clock runs up to DayMs + 2, the latest
\* end an edit gives the session.
InitLifecycle ==
    /\ sessions = <<SeedSession("t1", "s1", DayMs, DayMs + 1, "SCHEDULED")>>
    /\ rates = SeedRates
    /\ changeRequests \in {<<r>> : r \in RequestChoices}
    /\ ledger = <<>>
    /\ clock = DayMs
    /\ req = [p \in Procs |-> IdleReq]
    /\ job = [j \in Jobs |-> IdleJob]
    /\ worker = IdleWorker

NextLifecycle ==
    \/ \E p \in Procs, a \in {NoTime, DayMs + 1}, b \in {NoTime, DayMs + 2},
          st \in {"none", "CANCELLED", "COMPLETED"} :
          /\ st # "none" => (a = NoTime /\ b = NoTime)
          /\ EditRead(p, 1, "none", a, b, "none", 0, st)
    \/ \E p \in Procs : EditConflict(p)
    \/ \E p \in Procs : EditWrite(p)
    \/ CancelRead("r2", 1)
    \/ \E p \in Procs : CancelWrite(p)
    \/ ApproveRead("r1", 1, "a1")
    \/ \E p \in Procs : ApproveStage(p)
    \/ \E p \in Procs : ApproveCommit(p)
    \/ RejectRead("r1", 1, "a1")
    \/ \E p \in Procs : RejectCommit(p)
    \/ JobStart("j1", DefaultBatchSize)
    \/ JobRead("j1")
    \/ JobUpdate("j1")
    \/ JobUpsert("j1")
    \/ JobFail("j1")
    \/ (clock < DayMs + 2 /\ Tick)

SpecLifecycle == InitLifecycle /\ [][NextLifecycle]_vars

\* ----------------------------------------------- the sweep, raced (SpecJob)
\* Sessions of one hour-slot each, [DayMs, DayMs + 1) or [DayMs + 1, DayMs + 2),
\* no teacher double-booked.
SlotRows(statuses) ==
    {SeedSession(t, "s1", DayMs + k, DayMs + k + 1, st) :
        t \in Teachers, k \in {0, 1}, st \in statuses}

NoDoubleBooking(table) ==
    \A i, k \in 1..Len(table) :
        (i # k /\ table[i].teacherId = table[k].teacherId
         /\ table[i].status # "CANCELLED" /\ table[k].status # "CANCELLED")
        => table[i].startAtUtc # table[k].startAtUtc

\* Row ids carry no order, so one table stands for its permutations: rows by
\* start, and t1 before t2 within a slot.
InSlotOrder(table) ==
    \A i \in 1..Len(table) - 1 :
        \/ table[i].startAtUtc < table[i + 1].startAtUtc
        \/ /\ table[i].startAtUtc = table[i + 1].startAtUtc
           /\ table[i].teacherId = "t1"

SlotTables(statuses) ==
    {t \in Tables(SlotRows(statuses), MaxSessions) : NoDoubleBooking(t) /\ InSlotOrder(t)}

\* Two job instances sweep concurrently while time passes, an admin adds hours,
\* and units of work fail.
InitJob ==
    \E table \in SlotTables({"SCHEDULED"}) : Len(table) >= 1 /\ Seeded(table, DayMs)

NextJob ==
    \/ \E j \in Jobs : JobStart(j, DefaultBatchSize)
    \/ \E j \in Jobs : JobRead(j)
    \/ \E j \in Jobs : JobUpdate(j)
    \/ \E j \in Jobs : JobUpsert(j)
    \/ \E j \in Jobs : JobFail(j)
    \/ AddHours("s1", NoUser, 1, "PURCHASE")
    \/ Tick

SpecJob == InitJob /\ [][NextJob]_vars

\* ------------------------------------------- one worker process (SpecWorker)
\* A backlog of SCHEDULED sessions and nothing but the worker: its timer fires at
\* any moment, its runs read, write and fail, and time passes.
InitWorker ==
    \E table \in SlotTables({"SCHEDULED"}), n \in {1, DefaultBatchSize} :
        /\ Len(table) >= 1
        /\ sessions = table
        /\ ledger = <<>>
        /\ rates = SeedRates
        /\ changeRequests = <<>>
        /\ clock = DayMs
        /\ req = [p \in Procs |-> IdleReq]
        /\ job = [j \in Jobs |-> IdleJob]
        /\ worker = [IdleWorker EXCEPT !.batchSize = n]

NextWorker ==
    \/ \E j \in Jobs : WorkerTick(j)
    \/ \E j \in Jobs : JobRead(j)
    \/ \E j \in Jobs : JobUpdate(j)
    \/ \E j \in Jobs : JobUpsert(j)
    \/ \E j \in Jobs : JobFail(j)
    \/ WorkerTickEnd
    \/ Tick

SpecWorker == InitWorker /\ [][NextWorker]_vars

\* ----------------------------------- the worker with a sound store (SpecSweep)
\* The same worker when no unit of work fails.  The timer keeps firing, the store
\* answers every call and a finished tick runs its finally.
NextSweep ==
    \/ \E j \in Jobs : WorkerTick(j)
    \/ \E j \in Jobs : JobRead(j)
    \/ \E j \in Jobs : JobUpdate(j)
    \/ \E j \in Jobs : JobUpsert(j)
    \/ WorkerTickEnd
    \/ Tick

SpecSweep ==
    /\ InitWorker
    /\ [][NextSweep]_vars
    /\ WF_vars(\E j \in Jobs : WorkerTick(j))
    /\ \A j \in Jobs : WF_vars(JobRead(j) \/ JobUpdate(j) \/ JobUpsert(j))
    /\ WF_vars(WorkerTickEnd)

\* ------------------------------- approving into a taken hour (SpecOverlap)
\* Session 1 of t1 at [DayMs, DayMs + 1) with one pending request, a CANCEL or a
\* RESCHEDULE to [DayMs + 1, DayMs + 2); session 2, of either teacher and in any
\* status, holds one of the two hours.  Admins approve and reject the request
\* and cancel session 2.
InitOverlap ==
    \E t \in Teachers, k \in {0, 1}, st \in SessionStatus, r \in RequestChoices :
        /\ sessions = <<SeedSession("t1", "s1", DayMs, DayMs + 1, "SCHEDULED"),
                        SeedSession(t, "s2", DayMs + k, DayMs + k + 1, st)>>
        /\ NoDoubleBooking(sessions)
        /\ rates = SeedRates
        /\ changeRequests = <<r>>
        /\ ledger = <<>>
        /\ clock = 0
        /\ req = [p \in Procs |-> IdleReq]
        /\ job = [j \in Jobs |-> IdleJob]
        /\ worker = IdleWorker

NextOverlap ==
    \/ \E p \in Procs, a \in Admins : ApproveRead(p, 1, a)
    \/ \E p \in Procs : ApproveStage(p)
    \/ \E p \in Procs : ApproveCommit(p)
    \/ \E p \in Procs, a \in Admins : RejectRead(p, 1, a)
    \/ \E p \in Procs : RejectCommit(p)
    \/ \E p \in Procs : CancelRead(p, 2)
    \/ \E p \in Procs : CancelWrite(p)

SpecOverlap == InitOverlap /\ [][NextOverlap]_vars

\* --------------------------- which failure a request reports (SpecPrecedence)
\* Session 1 of s1 at [DayMs + 1, DayMs + 2), in any status, with or without a
\* pending request; the cutoff is instant 1.  Students ask to cancel it or a
\* session that does not exist, an admin cancels it, and time passes the cutoff.
InitPrecedence ==
    \E st \in SessionStatus, crs \in {<<>>, <<PendingRequest("CANCEL", NoTime)>>} :
        /\ sessions = <<SeedSession("t1", "s1", DayMs + 1, DayMs + 2, st)>>
        /\ ledger = SeedLedger(sessions, 1)
        /\ rates = SeedRates
        /\ changeRequests = crs
        /\ clock = 0
        /\ req = [p \in Procs |-> IdleReq]
        /\ job = [j \in Jobs |-> IdleJob]
        /\ worker = IdleWorker

NextPrecedence ==
    \/ \E p \in Procs, sid \in 1..(Len(sessions) + 1), s \in Students :
          ChangeRequestRead(p, sid, s, "CANCEL", NoTime, NoTime, "none")
    \/ \E p \in Procs : ChangeRequestPending(p)
    \/ \E p \in Procs : ChangeRequestInsert(p)
    \/ \E p \in Procs : CancelRead(p, 1)
    \/ \E p \in Procs : CancelWrite(p)
    \/ Tick

SpecPrecedence == InitPrecedence /\ [][NextPrecedence]_vars

\* ------------------------------------- wall clock to instant (SpecZone)
\* zonedTimeToUtc called on the wall-clock times of the two days around each
\* zone's transition: every hour, on and off the minute, the second and the
\* millisecond.
WallClocks(timeZone) ==
    {[year |-> 2026, month |-> d[1], day |-> d[2],
      hour |-> h, minute |-> mi, second |-> sec, millisecond |-> ms] :
        d \in (IF timeZone = "Europe/London" THEN {<<3, 28>>, <<3, 29>>}
                                             ELSE {<<4, 4>>, <<4, 5>>}),
        h \in 0..23, mi \in {0, 30, 59}, sec \in {0, 59}, ms \in {0, 1, 500, 999}}

InitZone ==
    Seeded(<<>>, 0)

ZoneCall(p) ==
    /\ Free(p)
    /\ \E timeZone \in TimeZones : \E local \in WallClocks(timeZone) :
          req' = [req EXCEPT ![p] =
              [IdleReq EXCEPT !.op = "zonedTimeToUtc", !.pc = "done", !.res = "Ok",
                              !.data = [kind |-> "instant", local |-> local,
                                        timeZone |-> timeZone,
                                        utc |-> ZonedTimeToUtc(local, timeZone)]]]
    /\ UNCHANGED <<worker, rates, sessions, changeRequests, ledger, clock, job>>

NextZone == ZoneCall("r1")

SpecZone == InitZone /\ [][NextZone]_vars

\* ------------------------------------------- the sweep, run twice (SpecIdem)
\* Nothing else runs: j1 sweeps with some batch size, and when it has returned j2
\* sweeps with the same batch size at the same instant.
InitIdem ==
    \E table \in SlotTables({"SCHEDULED", "CANCELLED"}), now \in Instants :
        Seeded(table, now)

NextIdem ==
    \/ \E n \in {1, 2, DefaultBatchSize} : job["j1"].pc = "idle" /\ JobStart("j1", n)
    \/ /\ job["j1"].pc = "returned"
       /\ job["j2"].pc = "idle"
       /\ JobStart("j2", job["j1"].batch)
    \/ \E j \in Jobs : JobRead(j)
    \/ \E j \in Jobs : JobUpdate(j)
    \/ \E j \in Jobs : JobUpsert(j)

SpecIdem == InitIdem /\ [][NextIdem]_vars

\* --------------------------------------------- admins cancelling (SpecCancel)
\* Sessions in any status; two admins cancel any of them, or a session that does
\* not exist, and requests die.
InitCancel ==
    \E table \in SlotTables(SessionStatus) : Len(table) >= 1 /\ Seeded(table, DayMs)

NextCancel ==
    \/ \E p \in Procs, sid \in 1..(Len(sessions) + 1) : CancelRead(p, sid)
    \/ \E p \in Procs : CancelWrite(p)
    \/ \E p \in Procs : Crash(p)

SpecCancel == InitCancel /\ [][NextCancel]_vars

\* ----------------------------------------------- admins editing sessions (SpecEdit)
\* Sessions of both teachers in any status; two admins move, stretch or cancel
\* any of them by PATCH, concurrently.
InitEdit ==
    \E table \in SlotTables(SessionStatus) : Len(table) >= 1 /\ Seeded(table, DayMs)

NextEdit ==
    \/ \E p \in Procs, sid \in 1..(Len(sessions) + 1),
          a \in {NoTime, DayMs, DayMs + 1}, b \in {NoTime, DayMs + 1, DayMs + 2},
          st \in {"none", "CANCELLED"} :
          EditRead(p, sid, "none", a, b, "none", 0, st)
    \/ \E p \in Procs : EditConflict(p)
    \/ \E p \in Procs : EditWrite(p)

SpecEdit == InitEdit /\ [][NextEdit]_vars

\* ------------------------------------- rates changing under sessions (SpecRates)
\* One session of (t1, s1) priced under the seeded rates; admins change the rates
\* of (t1, s1) and delete its MATH rate while one request creates sessions and
\* two edit them, with and without a subject in the body.
InitRates ==
    \E table \in SlotTables({"SCHEDULED"}) :
        /\ \A i \in 1..Len(table) : table[i].teacherId = "t1"
        /\ Len(table) = 1
        /\ Seeded(table, DayMs)

NextRates ==
    \/ \E sub \in {"none", "MATH"},
          r \in {<<100, "AUD">>, <<120, "CNY">>} :
          RateUpsert("t1", "s1", sub, r[1], r[2])
    \/ RateDelete(<<"t1", "s1", "MATH">>)
    \/ \E sub \in Subjects :
          CreateCheck("r1", "t1", "s1", sub, DayMs + MaxT - 1, DayMs + MaxT, "UTC", 1)
    \/ CreateWrite("r1")
    \/ \E p \in Procs, sid \in SessionIds, sub \in {"none", "GENERAL", "MATH"} :
          EditRead(p, sid, sub, NoTime, NoTime, "none", 0, "none")
    \/ \E p \in Procs : EditConflict(p)
    \/ \E p \in Procs : EditRate(p)
    \/ \E p \in Procs : EditWrite(p)

SpecRates == InitRates /\ [][NextRates]_vars

\* ------------------------------------------------ proration alone (SpecProrate)
\* Durations around zero, around the half cent of small wages, and whole and
\* half hours.
Durations == {-1, 0, 1, 599999, 600000, 600001, 1799999, 1800000, 1800001,
              3600000, 5400000, 5400001}

InitProrate ==
    /\ sessions = <<>> /\ changeRequests = <<>> /\ ledger = <<>>
    /\ rates = SeedRates
    /\ clock = 0
    /\ job = [j \in Jobs |-> IdleJob]
    /\ worker = IdleWorker
    /\ \E d \in Durations, w \in 0..MaxWageCents :
          req = [p \in Procs |->
                    IF p = "r1"
                    THEN [IdleReq EXCEPT !.op = "prorateCents", !.pc = "call",
                             !.data = [kind |-> "args", durationMs |-> d,
                                       hourlyRateCents |-> w]]
                    ELSE IdleReq]

\* The call returns.
ProrateCall(p) ==
    /\ req[p].pc = "call"
    /\ req' = [req EXCEPT ![p] =
            [@ EXCEPT !.pc = "done",
                      !.data = [kind |-> "result",
                                durationMs |-> req[p].data.durationMs,
                                hourlyRateCents |-> req[p].data.hourlyRateCents,
                                cents |-> ProrateCents(req[p].data.durationMs,
                                                       req[p].data.hourlyRateCents)]]]
    /\ UNCHANGED <<worker, rates, sessions, changeRequests, ledger, clock, job>>

NextProrate == \E p \in Procs : ProrateCall(p)

SpecProrate == InitProrate /\ [][NextProrate]_vars

\* --------------------------------------- the weekStart schema alone (SpecWeekStart)
\* Query values: a string the pattern rejects, and every month 00..13 and day
\* 00..32 of a two-digit-valued year, a leap year and two common years.
WeekStartYears == {50, 1999, 2024, 2026}
WeekStarts ==
    {Malformed} \cup {IsoDate(y, m, d) : y \in WeekStartYears, m \in 0..13, d \in 0..32}

InitWeekStart ==
    /\ sessions = <<>> /\ changeRequests = <<>> /\ ledger = <<>>
    /\ rates = SeedRates
    /\ clock = 0
    /\ job = [j \in Jobs |-> IdleJob]
    /\ worker = IdleWorker
    /\ \E ws \in WeekStarts :
          req = [p \in Procs |->
                    IF p = "r1"
                    THEN [IdleReq EXCEPT !.op = "payroll", !.pc = "parse", !.actor = "t1",
                             !.data = [kind |-> "query", weekStartLocal |-> ws]]
                    ELSE IdleReq]

\* payrollQuerySchema.safeParse(request.query): a 400 on failure.
PayrollParse(p) ==
    /\ req[p].pc = "parse"
    /\ req' = [req EXCEPT ![p] =
            [@ EXCEPT !.pc = "done",
                      !.res = IF PayrollQueryValid(req[p].data.weekStartLocal)
                              THEN "Ok" ELSE "InvalidArgument"]]
    /\ UNCHANGED <<worker, rates, sessions, changeRequests, ledger, clock, job>>

NextWeekStart == \E p \in Procs : PayrollParse(p)

SpecWeekStart == InitWeekStart /\ [][NextWeekStart]_vars

\* ------------------------------------------- teachers reading payroll (SpecPayroll)
\* Ends of sessions around the week of Monday 2026-03-30 in Sydney, which runs
\* from 2026-03-29T13:00Z to 2026-04-05T14:00Z: daylight saving ends inside it.
\* One millisecond before the week, its first instant, an instant of the hour
\* the clocks repeat, its last millisecond, and the first instant after it.
WeekEdges ==
    {13 * MsPerHour - 1, 13 * MsPerHour, 7 * DayMs + 13 * MsPerHour + 1,
     7 * DayMs + 14 * MsPerHour - 1, 7 * DayMs + 14 * MsPerHour}

\* Sessions of an hour and a half with the snapshot of the rate they were
\* created under: t1 teaches s1 in AUD (in any status) and, COMPLETED, s1 in CNY
\* and s2 in AUD; t2 has COMPLETED sessions with s1 in AUD.
PayrollSeed(teacherId, studentId, subject, endAt, status) ==
    [SeedSession(teacherId, studentId, endAt - 5400000, endAt, status)
        EXCEPT !.subject = subject,
               !.rateCentsSnapshot = IF subject = "MATH" THEN 120 ELSE 100,
               !.currencySnapshot = IF subject = "MATH" THEN "CNY" ELSE "AUD"]

PayrollSeedRows ==
    {PayrollSeed("t1", "s1", "GENERAL", e, st) : e \in WeekEdges, st \in SessionStatus}
    \cup {PayrollSeed(k[1], k[2], k[3], e, "COMPLETED") :
            k \in {<<"t1", "s1", "MATH">>, <<"t1", "s2", "GENERAL">>,
                   <<"t2", "s1", "GENERAL">>},
            e \in WeekEdges}

\* Row ids carry no order: rows by their end.
InEndOrder(table) ==
    \A i \in 1..Len(table) - 1 : table[i].endAtUtc <= table[i + 1].endAtUtc

InitPayroll ==
    \E table \in Tables(PayrollSeedRows, MaxSessions) :
        InEndOrder(table) /\ Seeded(table, 15 * DayMs)

\* A teacher asks for the week of 2026-03-30, for the week after it, for a
\* Tuesday, and with a string that is no date.
NextPayroll ==
    \E t \in Teachers,
       ws \in {IsoDate(2026, 3, 30), IsoDate(2026, 4, 6), IsoDate(2026, 3, 31),
               Malformed} :
        Payroll("r1", t, ws)

SpecPayroll == InitPayroll /\ [][NextPayroll]_vars

\* ------------------------------------------- two weeks in a row (SpecWeeks)
\* Over the same stores, a teacher asks for the week of 2026-03-30 on one request
\* and for the week after it on another.
NextWeeks ==
    \/ \E t \in Teachers : Payroll("r1", t, IsoDate(2026, 3, 30))
    \/ \E t \in Teachers : Payroll("r2", t, IsoDate(2026, 4, 6))

SpecWeeks == InitPayroll /\ [][NextWeeks]_vars

\* ------------------------------------------- students reading hours (SpecHours)
\* Sessions of student s1, some already completed and charged; an admin adds
\* hours for either student, with or without a teacher, while students read
\* their balance.
InitHours ==
    \E table \in SlotTables({"SCHEDULED", "COMPLETED"}) : Seeded(table, DayMs)

NextHours ==
    \/ \E s \in Students, t \in {"t1", NoUser} : AddHours(s, t, 2, "PURCHASE")
    \/ \E s \in Students : Hours("r2", s)
    \/ \E s \in Students : HoursByTeacher("r1", s)

SpecHours == InitHours /\ [][NextHours]_vars

\* C1: for each teacher, no two distinct sessions whose status is not CANCELLED
\* have overlapping half-open intervals [startAt, endAt).
C1_NoTeacherOverlap ==
    \A i, k \in SessionIds :
        (/\ i # k
         /\ sessions[i].teacherId = sessions[k].teacherId
         /\ sessions[i].status # "CANCELLED"
         /\ sessions[k].status # "CANCELLED")
        => ~Overlaps(sessions[i].startAtUtc, sessions[i].endAtUtc,
                     sessions[k].startAtUtc, sessions[k].endAtUtc)

\* The sessions of a teacher that are not CANCELLED and intersect [startAt, endAt).
Blocking(teacherId, startAt, endAt) ==
    {i \in SessionIds :
        /\ sessions[i].teacherId = teacherId
        /\ sessions[i].status # "CANCELLED"
        /\ sessions[i].startAtUtc < endAt
        /\ sessions[i].endAtUtc > startAt}

\* C9: a create with a valid interval and an existing rate is answered Conflict
\* if and only if a session of the same teacher that is not CANCELLED overlaps
\* the new interval (half-open), and a create answered Conflict writes nothing.
C9_CreateConflictIffBlocked ==
    [][\A p \in Procs :
          (/\ Free(p)
           /\ req'[p] # req[p]
           /\ req'[p].op = "create"
           /\ req'[p].res \notin {"InvalidArgument", "NotFound"})
          => /\ (req'[p].res = "Conflict") <=>
                    (Blocking(req'[p].data.teacherId, req'[p].data.startAtUtc,
                              req'[p].data.endAtUtc) # {})
             /\ (req'[p].res = "Conflict") => (sessions' = sessions)]_vars

\* C10: two creates for one teacher with overlapping intervals that were served
\* concurrently are never both answered Created.
C10_NotBothCreated ==
    \A p, q \in Procs :
        (/\ p # q
         /\ req[p].pc = "done" /\ req[p].op = "create" /\ req[p].res = "Created"
         /\ req[q].pc = "done" /\ req[q].op = "create" /\ req[q].res = "Created"
         /\ req[p].data.teacherId = req[q].data.teacherId)
        => ~Overlaps(req[p].data.startAtUtc, req[p].data.endAtUtc,
                     req[q].data.startAtUtc, req[q].data.endAtUtc)

\* C5: each session has at most one change request with status PENDING.
C5_OnePendingPerSession ==
    \A sid \in SessionIds : Cardinality(PendingIds(sid)) <= 1

\* C6: approve is atomic.  A change request becomes APPROVED only in a step that
\* also applies its session mutation (CANCELLED for a CANCEL; the proposed start,
\* end and time zone for a RESCHEDULE), and a step of an approve handler that
\* changes a session leaves its change request APPROVED; a crash changes nothing.
C6_ApproveAtomic ==
    [][/\ \A c \in ChangeRequestIds :
            (changeRequests[c].status # "APPROVED" /\ changeRequests'[c].status = "APPROVED")
            => LET cr == changeRequests[c]
                   after == sessions'[cr.sessionId]
               IN IF cr.type = "CANCEL"
                  THEN after.status = "CANCELLED"
                  ELSE /\ after.startAtUtc = cr.proposedStartAtUtc
                       /\ after.endAtUtc = cr.proposedEndAtUtc
                       /\ after.classTimeZone = cr.proposedTimeZone
       /\ \A p \in Procs :
            (/\ req[p].pc \in {"approveTx", "approveCommit"}
             /\ req'[p] # req[p]
             /\ sessions' # sessions)
            => changeRequests'[req[p].id].status = "APPROVED"
       /\ \A p \in Procs :
            (req[p].pc \in {"approveTx", "approveCommit"} /\ req'[p] = IdleReq)
            => (sessions' = sessions /\ changeRequests' = changeRequests)]_vars

\* A RESCHEDULE was approved: the request is APPROVED and the session, still
\* SCHEDULED, carries the proposed times and zone.
C6_Witness ==
    \E c \in ChangeRequestIds :
        /\ changeRequests[c].status = "APPROVED"
        /\ changeRequests[c].type = "RESCHEDULE"
        /\ sessions[changeRequests[c].sessionId].status = "SCHEDULED"
        /\ sessions[changeRequests[c].sessionId].startAtUtc = changeRequests[c].proposedStartAtUtc
        /\ sessions[changeRequests[c].sessionId].classTimeZone = changeRequests[c].proposedTimeZone
        /\ \E p \in Procs : req[p].op = "approve" /\ req[p].res = "Ok"

\* C7: a resolved change request is immutable: once its status is APPROVED or
\* REJECTED, no step changes its status or its decider.
C7_ResolvedOnce ==
    [][\A c \in ChangeRequestIds :
          changeRequests[c].status \in {"APPROVED", "REJECTED"}
          => /\ changeRequests'[c].status = changeRequests[c].status
             /\ changeRequests'[c].decidedByAdminId = changeRequests[c].decidedByAdminId]_vars

\* C8: the 24h cutoff.  A change-request create with a valid body on the
\* requester's own SCHEDULED session is answered Forbidden, writing nothing, when
\* now > startAt - 24h, and goes on to the pending check when now <= startAt - 24h
\* (now = cutoff included); finding no pending request it inserts, and the insert
\* adds one PENDING request and answers Created.
C8_CutoffRule ==
    [][\A p \in Procs :
          /\ (/\ Free(p) /\ req'[p] # req[p] /\ req'[p].op = "crCreate"
              /\ req'[p].res # "InvalidArgument"
              /\ req'[p].id \in SessionIds
              /\ sessions[req'[p].id].studentId = req'[p].actor
              /\ sessions[req'[p].id].status = "SCHEDULED")
             => IF clock > sessions[req'[p].id].startAtUtc - DayMs
                THEN /\ req'[p].pc = "done" /\ req'[p].res = "Forbidden"
                     /\ changeRequests' = changeRequests
                ELSE req'[p].pc = "crPending" /\ req'[p].now = clock
          /\ (req[p].pc = "crPending" /\ req'[p] # req[p] /\ req'[p] # IdleReq
              /\ PendingIds(req[p].id) = {})
             => req'[p].pc = "crInsert"
          /\ (req[p].pc = "crInsert" /\ req'[p] # req[p] /\ req'[p] # IdleReq)
             => /\ req'[p].res = "Created"
                /\ Len(changeRequests') = Len(changeRequests) + 1
                /\ changeRequests'[Len(changeRequests')].status = "PENDING"
                /\ changeRequests'[Len(changeRequests')].sessionId = req[p].id]_vars

\* A request made exactly at the cutoff (now = startAt - 24h) was answered Created.
C8_Witness ==
    \E p \in Procs :
        /\ req[p].pc = "done" /\ req[p].op = "crCreate" /\ req[p].res = "Created"
        /\ req[p].now = sessions[req[p].id].startAtUtc - DayMs
        /\ \E c \in ChangeRequestIds : changeRequests[c].sessionId = req[p].id

\* C4: CANCELLED and COMPLETED are terminal: no step changes the status, startAt,
\* endAt or time zone of a session whose status is CANCELLED or COMPLETED.
C4_TerminalStatuses ==
    [][\A i \in SessionIds :
          sessions[i].status \in {"CANCELLED", "COMPLETED"}
          => /\ sessions'[i].status = sessions[i].status
             /\ sessions'[i].startAtUtc = sessions[i].startAtUtc
             /\ sessions'[i].endAtUtc = sessions[i].endAtUtc
             /\ sessions'[i].classTimeZone = sessions[i].classTimeZone]_vars

\* C2: every session has at most one ledger entry carrying its id, whatever the
\* job instances do: when a unit of work commits for a session without an entry
\* it appends exactly that session's SESSION_CONSUME entry, and when it commits
\* for a session that already has one (a racing instance got there first) it
\* changes neither the ledger nor the sessions.
LedgerUnique ==
    \A i \in SessionIds : Cardinality(LedgerIdsOf(i)) <= 1

C2_OneLedgerEntryPerSession ==
    [][/\ LedgerUnique
       /\ LedgerUnique'
       /\ \A j \in Jobs :
            (job[j].pc = "upsert" /\ job'[j].pc \in {"read", "returned"}) =>
                IF LedgerIdsOf(job[j].cur.id) = {}
                THEN /\ Len(ledger') = Len(ledger) + 1
                     /\ SubSeq(ledger', 1, Len(ledger)) = ledger
                     /\ ledger'[Len(ledger')].sessionId = job[j].cur.id
                     /\ ledger'[Len(ledger')].reason = "SESSION_CONSUME"
                ELSE ledger' = ledger /\ sessions' = sessions]_vars

\* Both instances selected the only session, both ran their unit of work on it to
\* the end, and the session is COMPLETED with one entry.
C2_Witness ==
    /\ Len(sessions) = 1
    /\ \A j \in Jobs : job[j].pc = "returned" /\ job[j].processed = 1
    /\ sessions[1].status = "COMPLETED"
    /\ Cardinality(LedgerIdsOf(1)) = 1

\* C3 as stated: a second run of the job, right after the first with the same now
\* and the same batch size, changes no session and no ledger entry.
C3_SecondRunChangesNothing ==
    [][job'["j2"] # job["j2"] => sessions' = sessions /\ ledger' = ledger]_vars

\* The sessions that were SCHEDULED with endAtUtc <= now when the first run
\* started: under SpecIdem only the two runs complete sessions, and nothing is
\* COMPLETED before them.
Backlog ==
    {i \in SessionIds : sessions[i].status # "CANCELLED" /\ sessions[i].endAtUtc <= clock}

\* C3, amended: when at most batch-size sessions were SCHEDULED with
\* endAtUtc <= now at the start of the first run, the second run changes no
\* session and no ledger entry.
C3_SecondRunChangesNothingWithinBatch ==
    [][(job'["j2"] # job["j2"] /\ Cardinality(Backlog) <= job["j1"].batch)
        => sessions' = sessions /\ ledger' = ledger]_vars

\* The first run completed a backlog of exactly its batch size, and the second
\* run has returned having found nothing.
C3_Witness ==
    /\ job["j1"].pc = "returned" /\ job["j1"].batch = 2 /\ job["j1"].processed = 2
    /\ job["j2"].pc = "returned" /\ job["j2"].batch = 2 /\ job["j2"].processed = 0
    /\ Cardinality(Backlog) = 2
    /\ \A i \in Backlog : sessions[i].status = "COMPLETED" /\ Cardinality(LedgerIdsOf(i)) = 1

\* C11: a unit of work that commits for a session still SCHEDULED (its endAtUtc
\* not after the run's now) leaves the session COMPLETED with exactly one ledger
\* entry, -consumesUnits, SESSION_CONSUME, the session's student and teacher; a
\* unit of work that fails leaves sessions and ledger as they were; and a
\* COMPLETED session always has that one entry.
ConsumedOnce(i) ==
    \E k \in 1..Len(ledger) :
        /\ LedgerIdsOf(i) = {k}
        /\ ledger[k] = [studentId |-> sessions[i].studentId,
                        teacherId |-> sessions[i].teacherId,
                        deltaUnits |-> 0 - sessions[i].consumesUnits,
                        reason |-> "SESSION_CONSUME", sessionId |-> i]

C12_ConsumedOnlyIfCompleted ==
    \A k \in 1..Len(ledger) :
        ledger[k].reason = "SESSION_CONSUME" =>
            sessions[ledger[k].sessionId].status = "COMPLETED"

\* C13: when an approval commits for a PENDING RESCHEDULE request on a SCHEDULED
\* session, the session takes exactly the proposed start, end and timezone and
\* keeps its status and every other field, the request becomes APPROVED with the
\* decider's id, and nothing else in the store changes.
C13_ApproveReschedule ==
    [][\A p \in Procs, cid \in ChangeRequestIds, sid \in SessionIds :
        (/\ req[p].pc = "approveCommit"
         /\ req'[p].pc = "done"
         /\ req[p].id = cid
         /\ changeRequests[cid].sessionId = sid
         /\ changeRequests[cid].type = "RESCHEDULE"
         /\ changeRequests[cid].status = "PENDING"
         /\ sessions[sid].status = "SCHEDULED")
        => /\ sessions' = [sessions EXCEPT ![sid] =
                  [@ EXCEPT !.startAtUtc = changeRequests[cid].proposedStartAtUtc,
                            !.endAtUtc = changeRequests[cid].proposedEndAtUtc,
                            !.classTimeZone = changeRequests[cid].proposedTimeZone]]
           /\ sessions'[sid].status = "SCHEDULED"
           /\ changeRequests' = [changeRequests EXCEPT ![cid] =
                  [@ EXCEPT !.status = "APPROVED", !.decidedByAdminId = req[p].actor]]
           /\ req[p].actor \in Admins
           /\ ledger' = ledger]_vars

\* Admin a2's approval of the reschedule has answered: the session sits at the
\* proposed hour in the proposed zone, still SCHEDULED.
C13_Witness ==
    /\ req["r1"].op = "approve" /\ req["r1"].pc = "done" /\ req["r1"].res = "Ok"
    /\ req["r2"].pc = "idle"
    /\ changeRequests[1].type = "RESCHEDULE"
    /\ changeRequests[1].status = "APPROVED"
    /\ changeRequests[1].decidedByAdminId = "a2"
    /\ sessions[1].startAtUtc = DayMs + 1
    /\ sessions[1].endAtUtc = DayMs + 2
    /\ sessions[1].classTimeZone = "UTC"
    /\ sessions[1].status = "SCHEDULED"

\* C14: when an approval commits for a PENDING CANCEL request on a SCHEDULED
\* session, the session becomes CANCELLED and keeps its start, end, timezone and
\* every other field.
C14_ApproveCancel ==
    [][\A p \in Procs, cid \in ChangeRequestIds, sid \in SessionIds :
        (/\ req[p].pc = "approveCommit"
         /\ req'[p].pc = "done"
         /\ req[p].id = cid
         /\ changeRequests[cid].sessionId = sid
         /\ changeRequests[cid].type = "CANCEL"
         /\ changeRequests[cid].status = "PENDING"
         /\ sessions[sid].status = "SCHEDULED")
        => /\ sessions' = [sessions EXCEPT ![sid] = [@ EXCEPT !.status = "CANCELLED"]]
           /\ sessions'[sid].startAtUtc = sessions[sid].startAtUtc
           /\ sessions'[sid].endAtUtc = sessions[sid].endAtUtc
           /\ sessions'[sid].classTimeZone = sessions[sid].classTimeZone]_vars

\* An approval of the CANCEL request has answered and no DELETE was involved:
\* the session is CANCELLED at its original hour and zone.
C14_Witness ==
    /\ req["r1"].op = "approve" /\ req["r1"].pc = "done" /\ req["r1"].res = "Ok"
    /\ req["r2"].pc = "idle"
    /\ changeRequests[1].type = "CANCEL"
    /\ changeRequests[1].status = "APPROVED"
    /\ sessions[1].status = "CANCELLED"
    /\ sessions[1].startAtUtc = DayMs
    /\ sessions[1].endAtUtc = DayMs + 1
    /\ sessions[1].classTimeZone = "Australia/Sydney"

\* C15: when a rejection commits for a PENDING change request, the request
\* becomes REJECTED with the decider's id, and sessions and ledger are unchanged.
C15_RejectFrame ==
    [][\A p \in Procs, cid \in ChangeRequestIds :
        (/\ req[p].pc = "rejectTx"
         /\ req'[p].pc = "done"
         /\ req[p].id = cid
         /\ changeRequests[cid].status = "PENDING")
        => /\ changeRequests' = [changeRequests EXCEPT ![cid] =
                  [@ EXCEPT !.status = "REJECTED", !.decidedByAdminId = req[p].actor]]
           /\ req[p].actor \in Admins
           /\ sessions' = sessions
           /\ ledger' = ledger]_vars

\* Admin a2's rejection has answered: the request is REJECTED by a2 and the
\* session is as it was.
C15_Witness ==
    /\ req["r1"].op = "reject" /\ req["r1"].pc = "done" /\ req["r1"].res = "Ok"
    /\ req["r2"].pc = "idle"
    /\ changeRequests[1].status = "REJECTED"
    /\ changeRequests[1].decidedByAdminId = "a2"
    /\ sessions = <<SeedSession("t1", "s1", DayMs, DayMs + 1, "SCHEDULED")>>
    /\ ledger = <<>>

\* C16: a DELETE on a COMPLETED session answers Conflict and one on a CANCELLED
\* session answers Ok, both leaving the store as it is; one on a SCHEDULED
\* session goes on to write, and its write changes nothing but that session's
\* status, to CANCELLED (so nothing at all when a cancel already came first);
\* every session whose cancel answered Ok is CANCELLED.
C16_CancelGuarded ==
    [][\A p \in Procs, sid \in SessionIds :
        /\ (/\ Free(p)
            /\ req'[p] # req[p]
            /\ req'[p].op = "cancel"
            /\ req'[p].id = sid)
           => /\ sessions' = sessions /\ ledger' = ledger
              /\ sessions[sid].status = "COMPLETED"
                    => req'[p].pc = "done" /\ req'[p].res = "Conflict"
              /\ sessions[sid].status = "CANCELLED"
                    => req'[p].pc = "done" /\ req'[p].res = "Ok"
              /\ sessions[sid].status = "SCHEDULED" => req'[p].pc = "cancelWrite"
        /\ (req[p].pc = "cancelWrite" /\ req'[p].pc = "done" /\ req[p].id = sid)
           => /\ req'[p].res = "Ok"
              /\ sessions' = [sessions EXCEPT ![sid].status = "CANCELLED"]
              /\ sessions[sid].status = "CANCELLED" => sessions' = sessions
              /\ ledger' = ledger
        /\ (req'[p].op = "cancel" /\ req'[p].pc = "done" /\ req'[p].res = "Ok"
            /\ req'[p].id = sid)
           => sessions'[sid].status = "CANCELLED"]_vars

\* Session 1 was cancelled by both admins, each answered Ok, and it is CANCELLED
\* once; session 2 is still SCHEDULED.
C16_Witness ==
    /\ \A p \in Procs :
          req[p].op = "cancel" /\ req[p].pc = "done" /\ req[p].res = "Ok" /\ req[p].id = 1
    /\ Len(sessions) = 2
    /\ sessions[1].status = "CANCELLED"
    /\ sessions[2].status = "SCHEDULED"

\* C17: a run of the job that still has selected sessions to process never ends
\* before it has processed them: from inside a unit of work its next step stays
\* in that unit of work or moves on to the next selected session.
C17_RunGoesOn ==
    [][\A j \in Jobs :
        (job[j].pc \in {"read", "update", "upsert"} /\ Len(job[j].queue) > 1
         /\ job'[j] # job[j])
        => \/ job'[j].pc \in {"update", "upsert"} /\ job'[j].queue = job[j].queue
           \/ job'[j].pc = "read" /\ job'[j].queue = Tail(job[j].queue)]_vars

\* C18: every session ends after it starts.
C18_EndAfterStart ==
    \A i \in SessionIds : sessions[i].endAtUtc > sessions[i].startAtUtc

\* C19: when the pending check of a change-request create runs while its session
\* has a PENDING change request, of whatever type, the create answers Conflict
\* and the change requests stay as they are.
C19_SecondRequestConflict ==
    [][\A p \in Procs :
        (/\ req[p].pc = "crPending"
         /\ req'[p].pc # "crPending"
         /\ req'[p].pc # "idle"
         /\ \E c \in ChangeRequestIds :
               /\ changeRequests[c].sessionId = req[p].id
               /\ changeRequests[c].status = "PENDING")
        => /\ req'[p].pc = "done"
           /\ req'[p].res = "Conflict"
           /\ changeRequests' = changeRequests]_vars

\* A create was answered Conflict while the session's one request, a RESCHEDULE,
\* is PENDING, and nothing was added.
C19_Witness ==
    /\ \E p \in Procs :
          /\ req[p].op = "crCreate" /\ req[p].pc = "done" /\ req[p].res = "Conflict"
          /\ req[p].id = 1
    /\ Len(changeRequests) = 1
    /\ changeRequests[1].status = "PENDING"
    /\ changeRequests[1].type = "RESCHEDULE"
    /\ changeRequests[1].sessionId = 1

\* The ledger read row by row: the deltaUnits of the first n rows that belong to
\* a student and, when a teacher is named, to that teacher (NoUser names the
\* rows without a teacher).
RECURSIVE LedgerSum(_, _, _, _)
LedgerSum(n, studentId, anyTeacher, teacherId) ==
    IF n = 0 THEN 0
    ELSE LedgerSum(n - 1, studentId, anyTeacher, teacherId)
         + (IF /\ ledger[n].studentId = studentId
               /\ (anyTeacher \/ ledger[n].teacherId = teacherId)
            THEN ledger[n].deltaUnits ELSE 0)

RECURSIVE SumOver(_, _)
SumOver(f, keys) ==
    IF keys = {} THEN 0
    ELSE LET t == CHOOSE t \in keys : TRUE IN f[t] + SumOver(f, keys \ {t})

\* C20: the remainingUnits a student is answered is the sum of deltaUnits over
\* that student's ledger rows and no others (0 without rows); in the by-teacher
\* answer the total is that same sum, unassignedUnits is the sum of the student's
\* rows without a teacher, byTeacher has one bucket per teacher of the student's
\* rows and none for the rows without a teacher, each with that teacher's sum,
\* and unassignedUnits plus the buckets add up to the total.
C20_RemainingUnits ==
    [][\A p \in Procs, s \in Students :
        /\ (req'[p] # req[p] /\ req'[p].op = "hours" /\ req'[p].actor = s)
           => req'[p].data.remainingUnits = LedgerSum(Len(ledger), s, TRUE, NoUser)
        /\ (req'[p] # req[p] /\ req'[p].op = "hoursByTeacher" /\ req'[p].actor = s)
           => LET d == req'[p].data
              IN /\ d.totalRemainingUnits = LedgerSum(Len(ledger), s, TRUE, NoUser)
                 /\ d.unassignedUnits = LedgerSum(Len(ledger), s, FALSE, NoUser)
                 /\ NoUser \notin DOMAIN d.byTeacher
                 /\ DOMAIN d.byTeacher =
                       {t \in Teachers : \E k \in 1..Len(ledger) :
                           ledger[k].studentId = s /\ ledger[k].teacherId = t}
                 /\ \A t \in DOMAIN d.byTeacher :
                       d.byTeacher[t] = LedgerSum(Len(ledger), s, FALSE, t)
                 /\ d.unassignedUnits + SumOver(d.byTeacher, DOMAIN d.byTeacher)
                       = d.totalRemainingUnits]_vars

\* Student s1 was charged one unit by each of two teachers and bought two units
\* without a teacher: the breakdown answers total 0, unassigned 2 and a bucket of
\* -1 per teacher, while student s2, without rows, is answered 0.
C20_Witness ==
    /\ req["r1"].op = "hoursByTeacher" /\ req["r1"].actor = "s1"
    /\ req["r1"].data.totalRemainingUnits = 0
    /\ req["r1"].data.unassignedUnits = 2
    /\ req["r1"].data.byTeacher = [t \in Teachers |-> 0 - 1]
    /\ req["r2"].op = "hours" /\ req["r2"].actor = "s2"
    /\ req["r2"].data.remainingUnits = 0
    /\ Len(ledger) = 3

\* C28: an approve that reads a change request that is not PENDING, or whose
\* session is not SCHEDULED, is answered Conflict at once: the request is over
\* with that answer, and neither the change request nor any session is changed.
C28_ApproveStale ==
    [][\A p \in Procs : \A c \in ChangeRequestIds :
          (/\ Free(p)
           /\ req'[p] # req[p]
           /\ req'[p].op = "approve"
           /\ req'[p].id = c
           /\ \/ changeRequests[c].status # "PENDING"
              \/ sessions[changeRequests[c].sessionId].status # "SCHEDULED")
          => /\ req'[p].pc = "done"
             /\ req'[p].res = "Conflict"
             /\ changeRequests' = changeRequests
             /\ sessions' = sessions]_vars

\* An approve of a PENDING request whose session was cancelled has been answered
\* Conflict, the request still PENDING.
C28_Witness ==
    \E p \in Procs : \E c \in ChangeRequestIds :
        /\ req[p].op = "approve" /\ req[p].pc = "done" /\ req[p].res = "Conflict"
        /\ req[p].id = c
        /\ changeRequests[c].status = "PENDING"
        /\ sessions[changeRequests[c].sessionId].status = "CANCELLED"

\* C29: a reject that reads a PENDING change request whose session is no longer
\* SCHEDULED is answered Conflict, as an approve is, and the request stays as
\* it was.
C29_RejectStaleSession ==
    [][\A p \in Procs : \A c \in ChangeRequestIds :
          (/\ Free(p)
           /\ req'[p] # req[p]
           /\ req'[p].op = "reject"
           /\ req'[p].id = c
           /\ sessions[changeRequests[c].sessionId].status # "SCHEDULED")
          => /\ req'[p].pc = "done"
             /\ req'[p].res = "Conflict"
             /\ changeRequests' = changeRequests]_vars

\* C30: a job run never completes or charges a session that ends after the
\* run's now: whenever a unit of work commits a status flip or a ledger row,
\* the session's committed endAtUtc is at most the run's now, whatever edit or
\* approved reschedule has moved the session since the run selected it.
C30_NoFutureCompletion ==
    [][\A j \in Jobs : \A i \in SessionIds :
          (/\ job[j].pc = "upsert"
           /\ job[j].cur.id = i
           /\ (sessions' # sessions \/ ledger' # ledger))
          => sessions[i].endAtUtc <= job[j].now]_vars

\* C26: only the completion job completes a session.  A step that makes a
\* session COMPLETED is the commit of a job's unit of work on that session,
\* which was SCHEDULED, and no request handler moves in it.  An edit of a
\* SCHEDULED session whose body says status COMPLETED is answered
\* InvalidArgument with the store unchanged, and an edit that goes on carries
\* the status SCHEDULED or CANCELLED.
C26_OnlyJobCompletes ==
    [][/\ \A i \in SessionIds :
            (sessions[i].status # "COMPLETED" /\ sessions'[i].status = "COMPLETED")
            => /\ req' = req
               /\ sessions[i].status = "SCHEDULED"
               /\ \E j \in Jobs : /\ job[j].pc = "upsert"
                                  /\ job[j].cur.id = i
                                  /\ job'[j].pc # "upsert"
       /\ \A p \in Procs : \A i \in SessionIds :
            (/\ Free(p)
             /\ req'[p] # req[p]
             /\ req'[p].op = "edit"
             /\ req'[p].id = i
             /\ sessions[i].status = "SCHEDULED")
            => /\ sessions' = sessions /\ ledger' = ledger
               /\ changeRequests' = changeRequests
               /\ IF req'[p].pc = "done"
                  THEN /\ req'[p].res = "InvalidArgument"
                       /\ req'[p].data.status = "COMPLETED"
                  ELSE /\ req'[p].pc = "editConflict"
                       /\ req'[p].data.status \in {"SCHEDULED", "CANCELLED"}]_vars

\* An edit asking for COMPLETED was answered InvalidArgument and the session is
\* still SCHEDULED.
C26_Witness ==
    \E p \in Procs : \E i \in SessionIds :
        /\ req[p].op = "edit" /\ req[p].pc = "done" /\ req[p].id = i
        /\ req[p].res = "InvalidArgument"
        /\ req[p].data.status = "COMPLETED"
        /\ sessions[i].status = "SCHEDULED"

\* C27: an edit of a SCHEDULED session that reaches the conflict query is
\* answered Conflict if and only if the resulting interval overlaps (half-open)
\* a non-cancelled session of the same teacher other than the edited one, and
\* the query's step writes nothing.
C27_EditConflictIffBlocked ==
    [][\A p \in Procs :
          (req[p].pc = "editConflict" /\ req'[p] # req[p])
          => /\ (req'[p].res = "Conflict") <=>
                    (Blocking(req[p].data.teacherId, req[p].data.startAtUtc,
                              req[p].data.endAtUtc) \ {req[p].id} # {})
             /\ sessions' = sessions]_vars

\* The pricing snapshot of a session row or of a request's resolved body.
Snap(s) == <<s.rateCentsSnapshot, s.currencySnapshot>>

\* C25: the pricing snapshot is copied from the rate of the body's subject when
\* a session is created, and afterwards changes only in the write of an edit
\* whose body names a subject other than the one the edit read, to the rate
\* that edit looked up for the new subject.  A step that changes the rate table
\* (upsert or delete) changes no session, and the write of an edit that keeps
\* the subject leaves the snapshot as it was, whatever the rate table now says.
C25_SnapshotFrame ==
    [][/\ rates' # rates => sessions' = sessions
       /\ \A p \in Procs :
            (Free(p) /\ req'[p].pc = "createWrite")
            => /\ HasRate(req'[p].data.teacherId, req'[p].data.studentId,
                          req'[p].data.subject)
               /\ Snap(req'[p].data) =
                    <<RateOf(req'[p].data.teacherId, req'[p].data.studentId,
                             req'[p].data.subject).hourlyRateCents,
                      RateOf(req'[p].data.teacherId, req'[p].data.studentId,
                             req'[p].data.subject).currency>>
       /\ \A p \in Procs :
            (req[p].pc = "createWrite" /\ req'[p].pc = "done")
            => /\ Len(sessions') = Len(sessions) + 1
               /\ Snap(sessions'[Len(sessions')]) = Snap(req[p].data)
               /\ \A i \in SessionIds : sessions'[i] = sessions[i]
       /\ \A p \in Procs :
            (req[p].pc = "editRate" /\ req'[p].pc = "editWrite")
            => /\ req'[p].data.nextRate # NoRate
               /\ req'[p].data.nextRate =
                    RateOf(req[p].data.teacherId, req[p].data.studentId,
                           req[p].data.subject)
       /\ \A i \in SessionIds :
            Snap(sessions'[i]) # Snap(sessions[i])
            => \E p \in Procs :
                  /\ req[p].pc = "editWrite" /\ req'[p].pc = "done"
                  /\ req[p].id = i
                  /\ req[p].data.subject # req[p].data.existingSubject
                  /\ sessions'[i].subject = req[p].data.subject
                  /\ Snap(sessions'[i]) = <<req[p].data.nextRate.hourlyRateCents,
                                           req[p].data.nextRate.currency>>
       /\ \A p \in Procs : \A i \in SessionIds :
            (/\ req[p].pc = "editWrite" /\ req'[p].pc = "done"
             /\ req[p].id = i
             /\ req[p].data.subject = req[p].data.existingSubject)
            => Snap(sessions'[i]) = Snap(sessions[i])]_vars

\* An edit left a GENERAL session with the snapshot it was created with, while
\* the GENERAL rate of its teacher and student is now another one, and a MATH
\* session carries a snapshot although the MATH rate has been deleted.
C25_Witness ==
    \E p \in Procs : \E i, k \in SessionIds :
        /\ req[p].op = "edit" /\ req[p].pc = "done" /\ req[p].res = "Ok"
        /\ req[p].id = i
        /\ sessions[i].subject = "GENERAL"
        /\ Snap(sessions[i]) = <<100, "AUD">>
        /\ RateOf(sessions[i].teacherId, sessions[i].studentId, "GENERAL")
             = [hourlyRateCents |-> 120, currency |-> "CNY"]
        /\ sessions[k].subject = "MATH"
        /\ Snap(sessions[k]) = <<120, "CNY">>
        /\ ~HasRate(sessions[k].teacherId, sessions[k].studentId, "MATH")

\* C22: prorateCents returns 0 for a duration of zero or less, and for a positive
\* duration d and a wage w >= 0 it returns floor((d * w + 1800000) / 3600000),
\* which is the whole number of cents c nearest to d * w / 3600000 with the half
\* rounded up: c - 1/2 <= d * w / 3600000 < c + 1/2.
C22_ProrateHalfUp ==
    \A p \in Procs :
        (req[p].op = "prorateCents" /\ req[p].pc = "done")
        => LET d == req[p].data.durationMs
               w == req[p].data.hourlyRateCents
               c == req[p].data.cents
           IN IF d <= 0 THEN c = 0
              ELSE /\ c = (d * w + 1800000) \div 3600000
                   /\ (2 * c - 1) * 3600000 <= 2 * d * w
                   /\ 2 * d * w < (2 * c + 1) * 3600000

\* Ten minutes at 3 cents an hour, half a cent, came out as one cent.
C22_Witness ==
    \E p \in Procs :
        /\ req[p].op = "prorateCents" /\ req[p].pc = "done"
        /\ req[p].data.durationMs = 600000
        /\ req[p].data.hourlyRateCents = 3
        /\ req[p].data.cents = 1

\* The Gregorian calendar, by its rules.
IsLeapYear(y) == (y % 4 = 0 /\ y % 100 # 0) \/ y % 400 = 0

DaysInMonth(y, m) ==
    IF m = 2 THEN (IF IsLeapYear(y) THEN 29 ELSE 28)
    ELSE IF m \in {4, 6, 9, 11} THEN 30 ELSE 31

ValidCalendarDate(ws) ==
    /\ ws # Malformed
    /\ ws.month \in 1..12
    /\ ws.day \in 1..DaysInMonth(ws.year, ws.month)

\* Zeller's congruence: 0 is Saturday, 2 is Monday.
ZellerWeekday(ws) ==
    LET m == IF ws.month <= 2 THEN ws.month + 12 ELSE ws.month
        y == IF ws.month <= 2 THEN ws.year - 1 ELSE ws.year
        k == y % 100
        j == y \div 100
    IN (ws.day + (13 * (m + 1)) \div 5 + k + k \div 4 + j \div 4 + 5 * j) % 7

IsMonday(ws) == ZellerWeekday(ws) = 2

C21_PayrollSelection ==
    [][\A p \in Procs :
          (/\ Free(p)
           /\ req'[p] # req[p]
           /\ req'[p].op = "payroll"
           /\ req'[p].res = "Ok")
          => LET d == req'[p].data
                 ws == d.weekStartLocal
                 midnight == DateUtcMs(ws.year, ws.month - 1, ws.day)
             IN /\ d.rangeStartUtc + SydneyUtcOffsetMs(d.rangeStartUtc) = midnight
                /\ d.rangeEndUtcExclusive + SydneyUtcOffsetMs(d.rangeEndUtcExclusive)
                     = midnight + 7 * DayMs
                /\ d.found = {i \in SessionIds :
                                /\ sessions[i].teacherId = req'[p].actor
                                /\ sessions[i].status = "COMPLETED"
                                /\ d.rangeStartUtc <= sessions[i].endAtUtc
                                /\ sessions[i].endAtUtc < d.rangeEndUtcExclusive}
                /\ SumOver([c \in DOMAIN d.totals |-> d.totals[c].sessionsCount],
                           DOMAIN d.totals) = Cardinality(d.found)]_vars

\* The week of 2026-03-30 was answered for t1: it is an hour longer than seven
\* days, a session ending in that hour is counted, and a COMPLETED session of
\* t1 ending at the week's end is not.
C21_Witness ==
    \E p \in Procs : \E i, k \in SessionIds :
        /\ req[p].op = "payroll" /\ req[p].res = "Ok" /\ req[p].actor = "t1"
        /\ req[p].data.weekStartLocal = IsoDate(2026, 3, 30)
        /\ req[p].data.rangeEndUtcExclusive - req[p].data.rangeStartUtc
             = 7 * DayMs + MsPerHour
        /\ req[p].data.found = {k}
        /\ sessions[k].endAtUtc > req[p].data.rangeStartUtc + 7 * DayMs
        /\ i # k
        /\ sessions[i].teacherId = "t1" /\ sessions[i].status = "COMPLETED"
        /\ sessions[i].endAtUtc = req[p].data.rangeEndUtcExclusive

\* The counted sessions of a payroll answer paid in a currency: the rows found
\* that last longer than nothing and carry that currency snapshot.
CountedIn(d, currency) ==
    {i \in d.found : /\ sessions[i].endAtUtc > sessions[i].startAtUtc
                     /\ sessions[i].currencySnapshot = currency}

\* The wage of each session of a set, by the proration formula.
WageOf(ids) ==
    [i \in ids |-> ProrateCents(sessions[i].endAtUtc - sessions[i].startAtUtc,
                                sessions[i].rateCentsSnapshot)]

\* C23: a payroll answer has one total per currency that has counted sessions
\* and none for any other; the total's cents and count are the sum of the
\* prorated wages and the number of the counted sessions with that currency
\* snapshot, so no amount of one currency enters another's total; and for each
\* currency the per-student totals add up to the currency's total.
C23_PerCurrencyTotals ==
    [][\A p \in Procs :
          (/\ Free(p)
           /\ req'[p] # req[p]
           /\ req'[p].op = "payroll"
           /\ req'[p].res = "Ok")
          => LET d == req'[p].data
             IN /\ DOMAIN d.totals = {c \in Currencies : CountedIn(d, c) # {}}
                /\ \A c \in DOMAIN d.totals :
                      LET counted == CountedIn(d, c)
                          having == {s \in DOMAIN d.byStudent : c \in DOMAIN d.byStudent[s]}
                      IN /\ d.totals[c].totalCents = SumOver(WageOf(counted), counted)
                         /\ d.totals[c].sessionsCount = Cardinality(counted)
                         /\ SumOver([s \in having |-> d.byStudent[s][c].totalCents], having)
                              = d.totals[c].totalCents
                         /\ SumOver([s \in having |-> d.byStudent[s][c].sessionsCount], having)
                              = d.totals[c].sessionsCount
                         /\ \A s \in having :
                              d.byStudent[s][c].sessionsCount =
                                Cardinality({i \in counted : sessions[i].studentId = s})
                /\ \A s \in DOMAIN d.byStudent : DOMAIN d.byStudent[s] \subseteq DOMAIN d.totals]_vars

\* t1 was answered two totals for one week: 150 cents in AUD and 180 in CNY, one
\* session each, both with the same student.
C23_Witness ==
    \E p \in Procs :
        /\ req[p].op = "payroll" /\ req[p].res = "Ok" /\ req[p].actor = "t1"
        /\ DOMAIN req[p].data.totals = {"AUD", "CNY"}
        /\ req[p].data.totals["AUD"].totalCents = 150
        /\ req[p].data.totals["CNY"].totalCents = 180
        /\ DOMAIN req[p].data.byStudent = {"s1"}
        /\ req[p].data.byStudent["s1"]["AUD"].totalCents = 150
        /\ req[p].data.byStudent["s1"]["CNY"].totalCents = 180

\* Sessions the store holds that are SCHEDULED and have ended by the clock.
Elapsed(i) ==
    /\ i <= Len(sessions)
    /\ sessions[i].status = "SCHEDULED"
    /\ sessions[i].endAtUtc <= clock

\* The session ids a run that starts in this step was handed by its findMany.
Picked(j) == {job'[j].queue[k] : k \in 1..Len(job'[j].queue)}

\* C31: a job run started by the worker with batch size N is handed at most N
\* sessions, all of them SCHEDULED and ended by now, none twice, as many as N
\* when that many have elapsed, and none that ends later than an elapsed session
\* left out; and under a worker whose timer keeps firing and a store that never
\* fails, every session that is SCHEDULED and ended is eventually COMPLETED,
\* also when more sessions have elapsed than one run takes.
C31_OldestFirstNoStarvation ==
    /\ [][\A j \in Jobs :
            (~worker.isTickRunning /\ worker'.isTickRunning /\ worker'.run = j)
            => /\ Len(job'[j].queue) <= worker.batchSize
               /\ Cardinality(Picked(j)) = Len(job'[j].queue)
               /\ \A i \in Picked(j) : Elapsed(i)
               /\ \A i \in 1..MaxSessions :
                    (Elapsed(i) /\ i \notin Picked(j))
                    => /\ Len(job'[j].queue) = worker.batchSize
                       /\ \A k \in Picked(j) :
                            sessions[k].endAtUtc <= sessions[i].endAtUtc]_vars
    /\ \A i \in 1..MaxSessions :
          Elapsed(i) ~> (i <= Len(sessions) /\ sessions[i].status = "COMPLETED")

\* A worker with batch size 1 has completed a backlog of two or more sessions,
\* each with its ledger entry: the backlog took more than one run.
C31_Witness ==
    /\ worker.batchSize = 1
    /\ Len(sessions) >= 2
    /\ \A i \in SessionIds : sessions[i].status = "COMPLETED"
    /\ Len(ledger) = Len(sessions)
    /\ clock >= DayMs + 2

\* The runs of completeEndedSessions that are between their findMany and their end.
RunsInFlight == {j \in Jobs : InFlight(j)}

\* C32: in one worker process at most one job run is in flight at any time, and
\* a step taken while the single-flight flag is set starts no run: a timer firing
\* that finds the flag set changes nothing but the record of that firing.
C32_SingleFlight ==
    [][/\ Cardinality(RunsInFlight) <= 1
       /\ Cardinality(RunsInFlight') <= 1
       /\ worker.isTickRunning
          => /\ \A j \in Jobs : InFlight(j)' => InFlight(j)
             /\ worker'.fired # worker.fired
                => /\ worker' = [worker EXCEPT !.fired = "skipped"]
                   /\ job' = job
                   /\ sessions' = sessions
                   /\ ledger' = ledger]_vars

\* The timer fired while a run was between two of its store calls, and the tick
\* returned at once.
C32_Witness ==
    /\ worker.fired = "skipped"
    /\ worker.isTickRunning
    /\ \E j \in Jobs : job[j].pc = "upsert"

\* C39: the single-flight flag is set exactly while a tick is awaiting its job
\* run; the end of a tick clears it whether the run returned or threw; and a
\* timer firing that finds no tick in progress starts a new run, also when the
\* tick before it failed.
C39_FlagClearedAlways ==
    [][/\ worker.isTickRunning <=> worker.run # "none"
       /\ worker'.isTickRunning <=> worker'.run # "none"
       /\ (worker.run # "none" /\ worker'.run = "none")
          => /\ ~worker'.isTickRunning
             /\ worker'.failed <=> job[worker.run].pc # "returned"
       /\ (worker.run = "none" /\ worker' # worker)
          => /\ worker'.fired = "started"
             /\ worker'.isTickRunning
             /\ worker'.run \in Jobs
             /\ job'[worker'.run].pc \in {"read", "returned"}
             /\ job'[worker'.run].now \in {clock, NoTime}]_vars

\* A tick ended with its run having thrown, and the next timer firing started a
\* run that is now at work.
C39_Witness ==
    /\ worker.failed
    /\ worker.fired = "started"
    /\ worker.isTickRunning
    /\ \E j \in Jobs : worker.run = j /\ job[j].pc = "update"

\* C33: the ledger only grows at its end.  No step removes an entry or changes
\* a field of one; a step adds at most one entry; and the job's upsert for a
\* session that already has an entry leaves the whole ledger as it was.
C33_LedgerAppendOnly ==
    [][/\ Len(ledger') \in {Len(ledger), Len(ledger) + 1}
       /\ \A k \in 1..Len(ledger) : ledger'[k] = ledger[k]
       /\ \A j \in Jobs :
            (job[j].pc = "upsert" /\ job'[j].pc # "upsert" /\ job'[j] # IdleJob
             /\ \E k \in 1..Len(ledger) : ledger[k].sessionId = job[j].cur.id)
            => ledger' = ledger]_vars

\* Two runs were both handed the only session and both returned: the second
\* upsert found the first one's entry, which stands after an earlier purchase.
C33_Witness ==
    /\ Len(sessions) = 1
    /\ \A j \in Jobs : job[j].pc = "returned" /\ job[j].processed = 1
    /\ Len(ledger) = 2
    /\ ledger[1].reason = "PURCHASE"
    /\ ledger[2] = [studentId |-> sessions[1].studentId,
                    teacherId |-> sessions[1].teacherId,
                    deltaUnits |-> 0 - sessions[1].consumesUnits,
                    reason |-> "SESSION_CONSUME", sessionId |-> 1]

\* C34: an approval answers Conflict only for a change request that is not
\* PENDING or a session that is not SCHEDULED; the approval of a PENDING
\* RESCHEDULE read on a SCHEDULED session goes on to its transaction whatever
\* other sessions the teacher has, and its commit answers Ok and sets the
\* session's start, end and timezone to the proposed ones, overlap or not.
C34_ApproveSkipsOverlapCheck ==
    [][\A p \in Procs :
        /\ (Free(p) /\ req'[p] # req[p] /\ req'[p].op = "approve"
            /\ req'[p].res = "Conflict")
           => \/ changeRequests[req'[p].id].status # "PENDING"
              \/ sessions[changeRequests[req'[p].id].sessionId].status # "SCHEDULED"
        /\ \A cid \in ChangeRequestIds :
             (/\ Free(p) /\ req'[p] # req[p] /\ req'[p].op = "approve"
              /\ req'[p].id = cid
              /\ changeRequests[cid].status = "PENDING"
              /\ changeRequests[cid].type = "RESCHEDULE"
              /\ sessions[changeRequests[cid].sessionId].status = "SCHEDULED")
             => req'[p].pc = "approveTx"
        /\ (req[p].pc = "approveCommit" /\ req'[p].pc = "done")
           => /\ req'[p].res = "Ok"
              /\ req[p].data.type = "RESCHEDULE"
                 => LET s == sessions'[req[p].data.sessionId]
                    IN /\ s.startAtUtc = req[p].data.proposedStartAtUtc
                       /\ s.endAtUtc = req[p].data.proposedEndAtUtc
                       /\ s.classTimeZone = req[p].data.proposedTimeZone]_vars

\* An approved reschedule has put session 1 on the hour that session 2 of the
\* same teacher holds: both are SCHEDULED over [DayMs + 1, DayMs + 2).
C34_Witness ==
    /\ \E p \in Procs : req[p].op = "approve" /\ req[p].pc = "done" /\ req[p].res = "Ok"
    /\ changeRequests[1].type = "RESCHEDULE"
    /\ changeRequests[1].status = "APPROVED"
    /\ Len(sessions) = 2
    /\ sessions[1].teacherId = sessions[2].teacherId
    /\ sessions[1].status = "SCHEDULED" /\ sessions[2].status = "SCHEDULED"
    /\ sessions[1].startAtUtc = DayMs + 1 /\ sessions[1].endAtUtc = DayMs + 2
    /\ sessions[2].startAtUtc = DayMs + 1 /\ sessions[2].endAtUtc = DayMs + 2

\* C35: a change-request create with a well-formed body answers, in this order
\* of precedence: NotFound when the session does not exist or is not the
\* requester's; Conflict when the session is not SCHEDULED, also past the
\* cutoff; Forbidden when now is past the cutoff, also when the session has a
\* PENDING request; and only then, from its pending check, Conflict when the
\* session has a PENDING request.  None of these answers changes the store.
C35_FailurePrecedence ==
    [][\A p \in Procs :
          /\ (/\ Free(p) /\ req'[p] # req[p] /\ req'[p].op = "crCreate"
              /\ req'[p].res # "InvalidArgument")
             => LET sid == req'[p].id
                IN IF sid \notin SessionIds \/ sessions[sid].studentId # req'[p].actor
                   THEN req'[p].pc = "done" /\ req'[p].res = "NotFound"
                   ELSE IF sessions[sid].status \in {"CANCELLED", "COMPLETED"}
                   THEN req'[p].pc = "done" /\ req'[p].res = "Conflict"
                   ELSE IF clock > sessions[sid].startAtUtc - DayMs
                   THEN req'[p].pc = "done" /\ req'[p].res = "Forbidden"
                   ELSE req'[p].pc = "crPending"
          /\ (req[p].pc = "crPending" /\ req'[p] # req[p])
             => IF \E c \in ChangeRequestIds :
                      /\ changeRequests[c].sessionId = req[p].id
                      /\ changeRequests[c].status = "PENDING"
                THEN req'[p].pc = "done" /\ req'[p].res = "Conflict"
                ELSE req'[p].pc = "crInsert"
          /\ (req'[p] # req[p] /\ req'[p].op = "crCreate"
              /\ req'[p].res \in {"NotFound", "Conflict", "Forbidden"})
             => /\ changeRequests' = changeRequests
                /\ sessions' = sessions]_vars

\* Past the cutoff, a request on the SCHEDULED session that has a PENDING
\* request was answered Forbidden; the session was then cancelled and the next
\* request on it was answered Conflict by the status test.
C35_Witness ==
    /\ req["r1"].op = "crCreate" /\ req["r1"].res = "Forbidden" /\ req["r1"].id = 1
    /\ req["r1"].now > sessions[1].startAtUtc - DayMs
    /\ \E c \in ChangeRequestIds :
          changeRequests[c].sessionId = 1 /\ changeRequests[c].status = "PENDING"
    /\ sessions[1].status = "CANCELLED"
    /\ req["r2"].op = "crCreate" /\ req["r2"].res = "Conflict" /\ req["r2"].id = 1
    /\ req["r2"].now = NoTime

\* The instants at which the zone's wall clock shows the given time: none in a
\* gap, two in an overlap, one otherwise.
InstantsShowing(local, timeZone) ==
    {r \in {WallClockMs(local) - k * MsPerHour : k \in 0..11} :
        r + UtcOffsetMs(r, timeZone) = WallClockMs(local)}

\* C36: for a wall-clock time that the zone's clock shows at one instant or at
\* two, zonedTimeToUtc returns an instant at which the zone's clock shows it.
C36_ZonedTimeToUtcExact ==
    \A p \in Procs :
        req[p].data.kind = "instant"
        => LET valid == InstantsShowing(req[p].data.local, req[p].data.timeZone)
           IN valid # {} => req[p].data.utc \in valid

\* Two payroll answers for the same teacher, the second for the week that
\* starts seven days after the first one's.
ConsecutiveWeeks(p, q) ==
    /\ req[p].op = "payroll" /\ req[p].res = "Ok"
    /\ req[q].op = "payroll" /\ req[q].res = "Ok"
    /\ req[p].actor = req[q].actor
    /\ DateUtcDays(req[q].data.weekStartLocal.year,
                   req[q].data.weekStartLocal.month - 1,
                   req[q].data.weekStartLocal.day)
         = DateUtcDays(req[p].data.weekStartLocal.year,
                       req[p].data.weekStartLocal.month - 1,
                       req[p].data.weekStartLocal.day) + 7

\* C37: the range of a payroll week ends at the instant the next week's range
\* starts, no session is counted in both weeks, and every COMPLETED session of
\* the teacher that lasts longer than nothing and ends from the first week's
\* start up to the second week's end is counted in one of the two.
C37_WeeksPartition ==
    \A p, q \in Procs :
        ConsecutiveWeeks(p, q)
        => /\ req[p].data.rangeEndUtcExclusive = req[q].data.rangeStartUtc
           /\ req[p].data.found \cap req[q].data.found = {}
           /\ \A i \in SessionIds :
                (/\ sessions[i].teacherId = req[p].actor
                 /\ sessions[i].status = "COMPLETED"
                 /\ sessions[i].endAtUtc > sessions[i].startAtUtc
                 /\ sessions[i].endAtUtc >= req[p].data.rangeStartUtc
                 /\ sessions[i].endAtUtc < req[q].data.rangeEndUtcExclusive)
                => i \in req[p].data.found \cup req[q].data.found

\* t1 was answered for both weeks: of two COMPLETED sessions, the one ending in
\* the last millisecond of the first week is counted there only, and the one
\* ending at the instant the weeks meet is counted in the second only.
C37_Witness ==
    /\ ConsecutiveWeeks("r1", "r2")
    /\ req["r1"].actor = "t1"
    /\ \E i, k \in SessionIds :
          /\ sessions[i].endAtUtc = req["r1"].data.rangeEndUtcExclusive - 1
          /\ sessions[k].endAtUtc = req["r2"].data.rangeStartUtc
          /\ req["r1"].data.found = {i}
          /\ req["r2"].data.found = {k}

\* The session a run's unit of work is about.
UnitSession(j) == Head(job[j].queue)

\* C38: whatever the student's remaining units are, a unit of work that reads
\* an elapsed session that is not CANCELLED goes on to complete it, and the unit
\* of work that commits leaves the session COMPLETED when it found it SCHEDULED
\* and leaves a ledger row of -consumesUnits for it: nothing in the job looks at
\* the balance, which may go below zero.
C38_CompletionNotGatedOnBalance ==
    [][\A j \in Jobs :
         /\ (/\ job[j].pc = "read"
             /\ job'[j] # job[j]
             /\ job'[j] # IdleJob
             /\ UnitSession(j) \in SessionIds
             /\ sessions[UnitSession(j)].endAtUtc <= job[j].now
             /\ sessions[UnitSession(j)].status # "CANCELLED")
            => /\ job'[j].pc = "update"
               /\ job'[j].cur.id = UnitSession(j)
         /\ (/\ job[j].pc = "upsert"
             /\ job'[j] # job[j]
             /\ job'[j] # IdleJob)
            => /\ \E k \in 1..Len(ledger') :
                     /\ ledger'[k].sessionId = job[j].cur.id
                     /\ ledger'[k].reason = "SESSION_CONSUME"
                     /\ ledger'[k].studentId = job[j].cur.studentId
                     /\ ledger'[k].deltaUnits = 0 - job[j].cur.consumesUnits
               /\ sessions[job[j].cur.id].status = "SCHEDULED"
                  => sessions'[job[j].cur.id].status = "COMPLETED"
    ]_vars

\* A student who bought one unit has had two sessions completed and charged:
\* the remaining units are below zero.
C38_Witness ==
    \E i, k \in SessionIds :
        /\ i # k
        /\ sessions[i].studentId = "s1" /\ sessions[k].studentId = "s1"
        /\ sessions[i].status = "COMPLETED" /\ sessions[k].status = "COMPLETED"
        /\ LedgerIdsOf(i) # {} /\ LedgerIdsOf(k) # {}
        /\ \E p \in 1..Len(ledger) :
              /\ ledger[p].reason = "PURCHASE"
              /\ ledger[p].studentId = "s1"
              /\ \A c \in LedgerIdsOf(i) \cup LedgerIdsOf(k) : p < c
        /\ RemainingUnits("s1") < 0

====
